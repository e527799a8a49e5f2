CONSTANTS
    sw = sw  fan = fan  cov = cov  panel = panel  hidden = hidden  sens = sens
    h1 = h1  h2 = h2
    NoEndpoint = NoEndpoint  NoCall = NoCall  NoDirective = NoDirective
    Entities <- MCEntities
    Domain <- MCDomain
    Exposed <- MCEntities
    NeverExposed = {hidden}
    CodeArmRequired = {}
    Handlers <- MCOneHandler
    Directives <- MCArithmeticDirectives
    CoverPositions <- MCCoverPositions
    Dynamic = {}
    Volatile = {}
SPECIFICATION Spec
INVARIANT TypeOK
INVARIANT ZeroDeltaIdempotent
