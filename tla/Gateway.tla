------------------------------ MODULE Gateway ------------------------------
(***************************************************************************)
(* The edge of the HTTP service: what a request meets before a handler     *)
(* runs (launch checks, body limit, principal, CSRF, caller address) and   *)
(* the login and session routes of api/auth.py.                            *)
(*                                                                         *)
(* A call to a service is a record: `raised` holds the class of the        *)
(* exception that left it, if any, and `value` what it returned, {} for    *)
(* None or False.  A response is a status, the words of its body, the      *)
(* cookies it sets, and whether it tells the caller to come back.          *)
(***************************************************************************)
EXTENDS Integers, Sequences, FiniteSets, FiniteSetsExt

Returned(value) == [raised |-> {}, value |-> value]
Raised(exc) == [raised |-> {exc}, value |-> {}]

Response(status, body) == [status |-> status, body |-> body, cookies |-> {}, cleared |-> {}, retry |-> FALSE]
Busy(detail) == [Response(503, {detail}) EXCEPT !.retry = TRUE]

\* The classes an except clause also catches, where the service declares a subclass.
BaseClass(exc) ==
  CASE exc = "RequestAlreadyResolved" -> "RequestRefused"
    [] exc \in {"KeyError", "SourceSubjectErasedError", "SourceSignalErasedError", "PortalSubjectErasedError"} -> "LookupError"
    [] exc \in {"InvalidCursor", "OutcomeRefused", "StaleReviewError", "AliasConflictError", "ResumeInputError"} -> "ValueError"
    [] OTHER -> "Exception"
Catches(class, exc) == class \in {exc, BaseClass(exc)}

\* An exception no clause names: the admission refusal of the PDF pool has a handler of its
\* own for the whole application, anything else is an opaque 500.
PdfUnavailable == Busy("pdf_capacity_exhausted")
UnhandledError == Response(500, {"internal_error"})
Escaped(exc) == IF exc = "PdfUnavailable" THEN PdfUnavailable ELSE UnhandledError

\* The except clauses of a handler, <<class, response>> in order: the first that fits answers.
Handle(call, clauses, missing, found) ==
  LET fits(exc) == {i \in DOMAIN clauses : Catches(clauses[i][1], exc)}
  IN  IF call.raised = {} THEN IF call.value = {} THEN missing ELSE found
      ELSE LET exc == CHOOSE e \in call.raised : TRUE
           IN  IF fits(exc) = {} THEN Escaped(exc) ELSE clauses[Min(fits(exc))][2]

\* A pool that admits nothing, and one whose caller has stopped waiting.
Admission(pending) == <<<<"ExecutionUnavailable", Busy("capacity_exhausted")>>, <<"ExecutionPending", Busy(pending)>>>>
RateLimited == <<<<"RateLimited", [Response(429, {"rate_limited"}) EXCEPT !.retry = TRUE]>>>>

----------------------------------------------------------------------------
\* Launch. The mail client a configuration builds, the one that refuses when it names none
\* that could work; and the checks a configuration fails, any of which keeps the process down.

BuildEmail(c) ==
  IF c.provider = "smtp" /\ c.host THEN "smtp" ELSE IF c.provider = "capture" /\ c.path THEN "capture" ELSE "null"
EmailAvailable(client) == client # "null"

\* One sending: every failure of the provider is the same failure.
SendEmail(client, works) ==
  IF ~EmailAvailable(client) THEN Raised("EmailUnavailable")
  ELSE IF client = "smtp" /\ ~works THEN Raised("EmailSendFailed") ELSE Returned({"sent"})

\* The notifier of the contact checks shares that client, and has no other channel.
DeliverContactCode(channel, client, works) ==
  IF channel # "email" \/ ~EmailAvailable(client) THEN Raised("DeliveryUnavailable") ELSE SendEmail(client, works)

LaunchRefusals(c) ==
  IF ~c.apiKey THEN {"api_auth_key"}
  ELSE IF c.env # "prod" THEN {}
  ELSE {r \in {"sqlite", "cookie_secure", "cors", "capture", "rate_limit", "grievance", "email", "otp_echo", "static_code"} :
          \/ r = "sqlite" /\ c.sqlite
          \/ r = "cookie_secure" /\ ~c.secure
          \/ r = "cors" /\ "*" \in c.origins
          \/ r = "capture" /\ c.provider = "capture"
          \/ r = "rate_limit" /\ ~c.limiter
          \/ r = "grievance" /\ ~c.officer
          \/ r = "email" /\ ~EmailAvailable(BuildEmail(c))
          \/ r = "otp_echo" /\ c.echo
          \/ r = "static_code" /\ c.static # {}}

\* A fixed code that no verification could accept is refused when the settings are read.
StaticCodeUsable(c) == \A code \in c.static : code.digits /\ code.length = c.codeLength

----------------------------------------------------------------------------
\* The body: a declared length over the cap is refused unread, and the bytes are counted
\* whatever was declared. A body is a sequence of chunk sizes; `broken` after it if the
\* client went away before the last one.

Received(chunks, n) == LET upTo[i \in 0..Len(chunks)] == IF i = 0 THEN 0 ELSE upTo[i - 1] + chunks[i] IN upTo[n]

BodyLimit(declared, chunks, broken, cap) ==
  IF (\E d \in declared : d > cap) \/ (\E n \in DOMAIN chunks : Received(chunks, n) > cap)
  THEN {Response(413, {"request_body_too_large"})}
  ELSE IF broken THEN {Response(400, {"request_body_incomplete"})} ELSE {}

----------------------------------------------------------------------------
\* The caller's address: with n trusted proxies, the n-th entry from the right of the
\* forwarded list; without, or when the list is shorter, the peer.

ClientIp(req, hops) ==
  IF hops > 0 /\ Len(req.forwarded) >= hops THEN {req.forwarded[Len(req.forwarded) - hops + 1]} ELSE req.peer

----------------------------------------------------------------------------
\* Principals. A session belongs to one subject of one plane, live or not; a key opens one plane.

FromSession(kind, tokens, live) ==
  {[kind |-> kind, via |-> "session", subject |-> s.subject, session |-> {s.id}] :
     s \in {x \in live : x.token \in tokens /\ x.kind = kind /\ x.enabled}}

FromKey(kind, keys, holders) ==
  {[kind |-> kind, via |-> "key", subject |-> h.subject, session |-> {}] :
     h \in {x \in holders : x.kind = kind /\ x.key \in keys}}

\* The session first, then the key of the plane.
Resolve(kind, req, live, holders) ==
  LET session == FromSession(kind, req.token, live)
  IN  IF session # {} THEN session ELSE FromKey(kind, req.keys[kind], holders)

\* The routes of the session life cycle take a session of any plane, and no key.
ResolveAny(req, live) ==
  LET of(kind) == FromSession(kind, req.token, live)
  IN  IF of("candidate") # {} THEN of("candidate") ELSE IF of("org") # {} THEN of("org") ELSE of("admin")

CsrfMatches(cookie, header) == cookie # {} /\ header # {} /\ cookie = header

\* The double-submit check binds to how the principal was established, in the one place
\* every plane passes.
Accept(req, principal) ==
  IF req.unsafe /\ principal.via = "session" /\ ~CsrfMatches(req.csrfCookie, req.csrfHeader)
  THEN [refused |-> {Response(403, {"missing or invalid CSRF token"})}, principal |-> {}]
  ELSE [refused |-> {}, principal |-> {principal}]

Refusing(response) == [refused |-> {response}, principal |-> {}]

\* What a gate decides from what the bounded resolver answered.
ResolvedOr401(req, call, detail) ==
  IF call.raised # {} \/ call.value = {}
  THEN Refusing(Handle(call, Admission("auth_resolution_pending"), Response(401, {detail}), UnhandledError))
  ELSE Accept(req, CHOOSE p \in call.value : TRUE)

RequireApiKey(req, call) == ResolvedOr401(req, call, "invalid or missing admin credential")
RequireOrg(req, call) == ResolvedOr401(req, call, "invalid or missing X-Org-Key")
RequireCandidate(req, call) == ResolvedOr401(req, call, "invalid or missing X-Candidate-Key")
RequireAnyPrincipal(req, call) == ResolvedOr401(req, call, "a session is required")

Gate(plane, req, live, holders, resolver) ==
  LET call == IF resolver # {} THEN Raised(CHOOSE e \in resolver : TRUE)
              ELSE Returned(IF plane = "any" THEN ResolveAny(req, live) ELSE Resolve(plane, req, live, holders))
  IN  CASE plane = "admin" -> RequireApiKey(req, call)
        [] plane = "org" -> RequireOrg(req, call)
        [] plane = "candidate" -> RequireCandidate(req, call)
        [] plane = "any" -> RequireAnyPrincipal(req, call)

----------------------------------------------------------------------------
\* Login codes. `service` is what the service knows when it is asked: whether mail can be
\* sent at all, the limiter, the account and organisation behind the address, the cooldown
\* of its last code, and how the delivery ends.

Accepted == Response(202, {"accepted"})

\* The name of the organisation is looked at before the address is.
IssueCode(plane, purpose, s) ==
  LET noop == plane # "candidate"
              /\ IF purpose = "login" THEN ~s.known ELSE s.known \/ plane = "admin"
  IN  IF plane = "org" /\ purpose = "signup" /\ s.nameTaken THEN Raised("RegistrationRefused")
      ELSE IF ~s.mail THEN Raised("EmailUnavailableError")
      ELSE IF s.limited THEN Raised("RateLimited")
      ELSE IF noop THEN Returned({})
      ELSE IF s.cooling \/ s.delivery = "failed" THEN Raised("ChallengeRefused")
      ELSE IF s.delivery = "slow" THEN Raised("ExecutionPending")
      ELSE IF s.delivery = "cancelled" THEN Returned({}) ELSE Returned({"code"})

RequestCode(call, config) ==
  LET echoed == config.env = "local" /\ config.echo
  IN  Handle(call,
        <<<<"ExecutionUnavailable", Busy("capacity_exhausted")>>, <<"ExecutionPending", Accepted>>,
          <<"RegistrationRefused", Response(409, {"organization_name_taken"})>>>> \o RateLimited \o
        <<<<"EmailUnavailableError", Response(503, {"email_unavailable"})>>, <<"ChallengeRefused", Accepted>>>>,
        Accepted, IF echoed THEN Response(202, {"accepted", "debug_code"}) ELSE Accepted)

AuthOrgSignup(s, config) == RequestCode(IssueCode("org", "signup", s), config)
AuthOrgLogin(s, config) == RequestCode(IssueCode("org", "login", s), config)
AuthCandidateSignup(s, config) == RequestCode(IssueCode("candidate", "signup", s), config)
AuthCandidateLogin(s, config) == RequestCode(IssueCode("candidate", "login", s), config)
AuthAdminLogin(s, config) == RequestCode(IssueCode("admin", "login", s), config)

SessionCookies == {"session", "csrf"}
SetSessionCookies(response) == [response EXCEPT !.cookies = SessionCookies]

\* A verified code opens a session: the only answer that sets cookies.
Verify(call) ==
  Handle(call,
    Admission("auth_redemption_pending") \o RateLimited \o
    <<<<"RegistrationRefused", Response(409, {"organization_name_taken"})>>, <<"ChallengeRefused", Response(400, {"invalid_code"})>>>>,
    UnhandledError, SetSessionCookies(Response(200, {"principal", "csrf_token"})))

----------------------------------------------------------------------------
\* The life cycle of a session, over the sessions of the store: each has an owner.

SessionsFor(principal, live) == {s.id : s \in {x \in live : x.kind = principal.kind /\ x.subject = principal.subject}}
Logout(principal, live) == {s.id : s \in {x \in live : x.id \in principal.session}}
RevokeSession(principal, id, live) == SessionsFor(principal, live) \cap {id}

SessionOperation(call, missing, found) == Handle(call, Admission("auth_session_pending"), missing, found)

\* The cookies are cleared only by an answer that says what happened to the session.
AuthLogout(call) ==
  LET cleared(words) == [Response(200, words) EXCEPT !.cleared = SessionCookies]
  IN  SessionOperation(call, cleared({"logged_out_false"}), cleared({"logged_out"}))
AuthSessions(call) == SessionOperation(call, Response(200, {}), Response(200, {"sessions"}))
AuthRevokeSession(call) == SessionOperation(call, Response(404, {"session not found"}), Response(200, {"revoked"}))
AuthMe(principal) == Response(200, {principal.kind})

----------------------------------------------------------------------------
\* The files under /ui: the entry document for the directory itself, and the allow-list by
\* the first segment of the path.

UiServes(path, assets, entry) ==
  LET top == IF path = <<>> THEN entry ELSE path[1]
  IN  IF top \in assets THEN {IF path = <<>> THEN <<entry>> ELSE path} ELSE {}

\* The label a request is counted under: the template of the route it matched, never its path.
RouteTemplate(matched) == IF matched.template # {} THEN matched.template ELSE IF matched.path # {} THEN matched.path ELSE {"__unmatched__"}

\* How loudly a refusal is logged.
RefusalLevel(status, template) == IF status >= 500 THEN "error" ELSE IF template = {"__unmatched__"} THEN "info" ELSE "warning"

\* The paths GET / lists: those of the routes, without the documentation's own and the root.
AdvertisedEndpoints(routes, docs) ==
  {<<m, r.path>> : <<m, r>> \in {x \in (UNION {r.methods : r \in routes}) \X routes :
                                   x[1] \in x[2].methods \ {"HEAD", "OPTIONS"} /\ x[2].path \notin docs \cup {"/"}}}
=============================================================================
