------------------------- MODULE AlexaSmartHomeProofs -------------------------
(***************************************************************************)
(* Proofs about the directive dispatcher, for every set of entities,      *)
(* directives and concurrent dispatch calls.                              *)
(*                                                                         *)
(* EnvelopeAccounting is not inductive by itself: each answer adds one     *)
(* event, and the step needs to know that the per-call variables are       *)
(* functions over the calls, so that answering one call leaves the         *)
(* accounts of the others alone.  IInv adds those shapes, and that an idle *)
(* call has issued no service call, which the handler proofs need.         *)
(***************************************************************************)
EXTENDS AlexaSmartHome, TLAPS

PcStates == {"idle", "calling", "called", "done", "raised"}

\* The per-call variables are functions over the dispatch calls.
Shape ==
    /\ pc \in [Handlers -> PcStates]
    /\ DOMAIN req = Handlers /\ DOMAIN seen = Handlers /\ DOMAIN call = Handlers
    /\ DOMAIN resp = Handlers /\ DOMAIN fired = Handlers

\* A call that has not received its directive has issued no service call.
IdleNoCall == \A h \in Handlers : pc[h] = "idle" => call[h] = NoCall

IInv == Shape /\ IdleNoCall /\ EnvelopeAccounting

\* The envelopes a dispatch call returns are never the absent one.
LEMMA EnvelopeNames ==
    ASSUME NEW n, NEW ns, NEW err, NEW ctx, NEW eps, n # "none"
    PROVE  /\ Envelope(n, ns, err, ctx, eps) # NoResponse
           /\ Envelope(n, ns, err, ctx, eps).name = n
           /\ Envelope(n, ns, err, ctx, eps).err = err
           /\ Envelope(n, ns, err, ctx, eps).endpoints = eps
BY DEF Envelope, NoResponse

LEMMA InitIInv == Init => IInv
BY DEF Init, IInv, Shape, PcStates, IdleNoCall, EnvelopeAccounting

\* The environment touches only the store and the bridge's flag.
LEMMA EnvironmentIInv == IInv /\ Environment => IInv'
<1> SUFFICES ASSUME IInv, Environment PROVE IInv'
    OBVIOUS
<1>1. UNCHANGED <<pc, req, seen, call, resp, fired>>
    BY DEF Environment, DeviceChange, EntityRemoved, EntityAdded, Reconfigure
<1> QED
    BY <1>1 DEF IInv, Shape, IdleNoCall, EnvelopeAccounting

LEMMA NextIInv == IInv /\ [Next]_vars => IInv'
<1> SUFFICES ASSUME IInv, [Next]_vars PROVE IInv'
    OBVIOUS
<1> USE DEF IInv, Shape, PcStates
<1>1. ASSUME NEW h \in Handlers, NEW d \in Directives, ReceiveWrongVersion(h, d)
      PROVE IInv'
    BY <1>1 DEF ReceiveWrongVersion, IdleNoCall, EnvelopeAccounting
<1>2. ASSUME NEW h \in Handlers, NEW d \in Directives, ReceiveRejected(h, d)
      PROVE IInv'
    <2>1. ErrorEnvelope(DispatchError(d)) # NoResponse
        BY EnvelopeNames DEF ErrorEnvelope
    <2>2. fired[h] = 0
        BY <1>2 DEF ReceiveRejected, EnvelopeAccounting
    <2> QED
        BY <1>2, <2>1, <2>2 DEF ReceiveRejected, IdleNoCall, EnvelopeAccounting
<1>3. ASSUME NEW h \in Handlers, NEW d \in Directives, ReceiveDiscovery(h, d)
      PROVE IInv'
    <2> DEFINE env == IF d.ns = "Alexa.Discovery"
                      THEN Envelope("Discover.Response", "Alexa.Discovery", "none",
                                    "none", {e \in present : Discoverable(e)})
                      ELSE Envelope("AcceptGrant.Response", "Alexa.Authorization",
                                    "none", "none", {})
    <2>1. resp' = [resp EXCEPT ![h] = env] /\ fired[h] = 0
        BY <1>3 DEF ReceiveDiscovery, EnvelopeAccounting
    <2>2. env # NoResponse
        BY EnvelopeNames
    <2>3. Shape' /\ IdleNoCall'
        BY <1>3 DEF ReceiveDiscovery, IdleNoCall
    <2>4. EnvelopeAccounting'
        BY <1>3, <2>1, <2>2 DEF ReceiveDiscovery, EnvelopeAccounting
    <2> QED
        BY <2>3, <2>4
<1>4. ASSUME NEW h \in Handlers, NEW d \in Directives, ReceiveExecute(h, d)
      PROVE IInv'
    BY <1>4 DEF ReceiveExecute, IdleNoCall, EnvelopeAccounting
<1>5. ASSUME NEW h \in Handlers, ServiceRun(h) PROVE IInv'
    BY <1>5 DEF ServiceRun, IdleNoCall, EnvelopeAccounting
<1>6. ASSUME NEW h \in Handlers, ServiceFail(h) PROVE IInv'
    <2>1. ErrorEnvelope("INTERNAL_ERROR") # NoResponse
        BY EnvelopeNames DEF ErrorEnvelope
    <2>2. fired[h] = 0
        BY <1>6 DEF ServiceFail, EnvelopeAccounting
    <2> QED
        BY <1>6, <2>1, <2>2 DEF ServiceFail, IdleNoCall, EnvelopeAccounting
<1>7. ASSUME NEW h \in Handlers, Respond(h) PROVE IInv'
    <2>1. Envelope(IF req[h].name = "Arm" THEN "Arm.Response" ELSE "Response",
                   "Alexa", "none", call[h].val, {}) # NoResponse
        BY EnvelopeNames
    <2>2. fired[h] = 0
        BY <1>7 DEF Respond, EnvelopeAccounting
    <2> QED
        BY <1>7, <2>1, <2>2 DEF Respond, IdleNoCall, EnvelopeAccounting
<1>8. CASE Environment
    BY <1>8, EnvironmentIInv
<1>9. CASE UNCHANGED vars
    BY <1>9 DEF vars, IdleNoCall, EnvelopeAccounting
<1> QED
    BY <1>1, <1>2, <1>3, <1>4, <1>5, <1>6, <1>7, <1>8, <1>9 DEF Next, Dispatcher

\* For every number of concurrent dispatch calls, every interleaving with
\* the hub's devices, entities leaving the store while a call is suspended
\* and the bridge being toggled: each handled directive, rejected,
\* discovered, answered or failed, gets exactly one envelope and fires
\* exactly one event, and a call in flight none (EnvelopeAccounting).
THEOREM EnvelopeAccountingHolds == Spec => []EnvelopeAccounting
<1>1. IInv => EnvelopeAccounting
    BY DEF IInv
<1> QED
    BY <1>1, InitIInv, NextIInv, PTL DEF Spec
====
