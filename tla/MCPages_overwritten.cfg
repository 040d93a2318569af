SPECIFICATION Spec
CONSTANTS
    MaxFlight = 2
    MaxCalls = 3
    Requests <- Three
    NoRequest = "none"
    Token <- TwoTokens
    NoToken = "none"
    Targets <- OnePeer
    Wizards = {"orphan", "topology"}
    NoWizard = "none"
    Reviews <- TwoReviews
    Diagnosing = {"topology"}
    Worlds = {"calm", "lag", "moved"}
    Mark <- LagUnmarked
    RiskyIn <- Risks
    Spaces = {a, b}
    System = {}
    NoSpace = "none"
    LastPage = 1
    Words = {"", "0", "0.1", "0.10000000000000000001", "9007199254740993LL", "true", "false", "{}", "word"}
    Blank = ""
    Digits = {"0", "0.1", "0.10000000000000000001"}
    Nearest <- Doubles
    Wides = {"9007199254740993LL"}
    Zero = "0"
    True = "true"
    False = "false"
    Jsons = {"{}"}
    Bytes = {"text", "raw"}
    NoBytes = "none"
    Utf8 = {"text"}
    Tables = {"a", "b", "c"}
    NoTable = "none"
    SequenceOf <- TwoSequences
    Indexes = {"pk", "sk"}
    Texts = {t1, t2}
    Broken = {}
    NoText = NoText
    NoEditor = NoEditor
    MaxRevision = 3
    MaxPrepared = 1
    Instances = {"i1"}
    NoInstance = "none"
    Modes = {"off", "election", "supervised"}
    Sqls = {"q", "scan"}
    Scans = {"scan"}
    NoSql = "none"
    Filters = {"f1", "f2"}
    Periods = {1, 2}
    Criteria = {"all"}
    Everything = "all"
    Matching <- OddOnes
    MaxEntry = 1
    PageSize = 1
    MaxShown = 1
    Choices = {"rs3", "shard"}
    NoChoice = "none"
    Langs = {"lua", "sql"}
    Opening <- Greetings
    Codes = {"lua identity", "sql identity", "sql scan"}
    NoCode = "none"
    Guarded = {"sql scan"}
INVARIANT NoLostUpdate
