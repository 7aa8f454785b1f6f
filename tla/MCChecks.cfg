SPECIFICATION Spec
CONSTANTS
    TemplateWords <- MCTemplateWords
    AcceptanceIds <- MCAcceptanceIds
    DecisionIds <- MCDecisionIds
    SegmentsOf <- MCSegmentsOf
    CheckoutVersion = "1.0.0"
    StoryDocs <- MCStoryDocs
    AcceptanceDocs <- MCAcceptanceDocs
    RecordDocs <- MCRecordDocs
    DecisionDocs <- MCDecisionDocs
    HandoffDocs <- MCHandoffDocs
    Names <- MCNames
    Cases <- MCCases
    Others <- MCOthers
    MaxOutput = 2
    PipeSize = 1
INVARIANTS
    DoctorReadsOneTree
    CleanMeansContracts
    OutcomeIsTheChilds
    PassIsProven
    ReadinessKeepsStructure
    ContractImpliesPlan
PROPERTY
    VerificationEnds
