CONSTANTS
    lead = lead  mate = mate  mixed = mixed  plain = plain  model = model
    Pods = {lead, mate}
    Attr <- PodAttr
    Nodes = {mixed, plain}
    Ask <- Wishes
    Board <- Boards
    Templates = {model}
    NoTemplate = NoTemplate
    Template <- TemplateOf
    Slices <- Published
    Physical <- Gpus
    NsName = "dev"
    NsTiers = {"gold", "other"}
    Notes <- Annotations
    Profiled = TRUE
    MaxFaults = 1
    NoPod = NoPod  NoNode = NoNode
SPECIFICATION Spec
INVARIANTS TypeOK VRAMSuffices AdmissionAgrees TighterFitNeverScoresLess
           RecordedFits SpreadPolicyDecides
CHECK_DEADLOCK FALSE
