SPECIFICATION Spec
CHECK_DEADLOCK FALSE
CONSTANTS
 c1 = c1 c2 = c2 r1 = r1 r2 = r2 p1 = p1 p2 = p2
 Requests = {p1, p2} Subjects = {u, v} Clients = {c1} Redirects = {r1, r2} Scopes = {"sc"}
 Worlds <- UseAndPolicy
 TTL = 4 Day = 2 PageTTL = 1 CodeTTL = 1 MaxConsentClients = 1 MaxConsentRedirects = 1
 MaxCodes = 1 MaxPages = 1
SYMMETRY Interchangeable
INVARIANTS DenySticks CodeNeedsAllow RefreshBacked
PROPERTIES UseRenews
