CONSTANTS
    sw = sw  fan = fan  cov = cov  panel = panel  hidden = hidden  sens = sens
    h1 = h1  h2 = h2
    NoEndpoint = NoEndpoint  NoCall = NoCall  NoDirective = NoDirective
    Entities <- MCEntities
    Domain <- MCDomain
    Exposed <- MCEntities
    NeverExposed = {hidden}
    CodeArmRequired = {}
    Handlers <- MCHandlers
    Directives <- MCDispatchDirectives
    CoverPositions <- MCCoverPositions
    Dynamic = {panel}
    Volatile = {sw}
SPECIFICATION Spec
INVARIANT EnvelopeAccounting
