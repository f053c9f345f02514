SPECIFICATION Spec
CHECK_DEADLOCK FALSE
CONSTANTS
 c1 = c1 c2 = c2 r1 = r1 r2 = r2 p1 = p1 p2 = p2
 Requests = {p1, p2} Subjects = {"u"} Clients = {c1} Redirects = {r1} Scopes = {}
 Worlds <- Prompting
 TTL = 4 Day = 2 PageTTL = 1 CodeTTL = 1 MaxConsentClients = 2 MaxConsentRedirects = 2
 MaxCodes = 3 MaxPages = 2
INVARIANTS TouchNeverResurrects
