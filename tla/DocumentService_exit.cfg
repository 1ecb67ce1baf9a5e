SPECIFICATION Spec
CONSTANTS
    plain = plain
    declaring = declaring
    u1 = u1
    u2 = u2
    ext = ext
    v330 = v330
    v460 = v460
    Uris = {u1}
    StagelessUris = {u1}
    Contexts = {x1}
    Compilations = {c1, c2}
    Requests = {r1}
    StatefulFeatures = {"semanticTokens"}
    StatelessFeatures = {"hover"}
    Texts = {plain, declaring}
    Versions = {v330, v460}
    Extensions = {ext}
    DeclaredVersion <- MCDeclaredVersion
    EnabledExtensions <- MCEnabledExtensions
    DefaultVersion = v460
    NoVersion = NoVersion
    NoPreamble = NoPreamble
    None = None
    NumWorkers = 2
    ClientMayMisuse = FALSE
    ClientMayExit = TRUE
INVARIANT ContextOutlivesTasks
