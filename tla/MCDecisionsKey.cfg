SPECIFICATION Spec
CONSTANTS
    Inside <- MCInside
    Opens <- MCOpens
    Closes <- MCCloses
    Texts <- MCTexts
    Codes = {404, 429, 500}
    Confidences = {0, 34, 35, 100}
    Floor = 35
    Sentences = {1, 137, 140, 2000}
    MaxMarks = 5
    MaxLeft = 40
    MaxClock = 7
    Forged = {"", "a", "citizen"}
    MaxForged = 2
    Proxies = {"ingress", "nginx"}
    MaxProxies = 2
    MaxRows = 3
    Drafts <- MCDrafts
    Repos <- MCRepos
INVARIANT KeyIsCitizens
