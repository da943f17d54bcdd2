------------------------------ MODULE Sessions ------------------------------
(***************************************************************************)
(* The browser sessions of the local API: a stateless server (its secret   *)
(* is new at every start), the cookies of one browser, and dashboard tabs  *)
(* that share them, each with the CSRF token it remembers.  A tab that is  *)
(* refused once takes a new session and tries again.  0 is no token and    *)
(* Nothing no session.                                                     *)
(***************************************************************************)
EXTENDS Integers, FiniteSets

CONSTANTS Tabs, DevOrigins, Origins,  \* where the tabs were loaded from
          Lifetime,                   \* the ttl of a session
          MaxNow, MaxBoots, MaxTokens \* bounds: time, starts of the server, CSRF tokens
ASSUME SessionAssumption == {Lifetime, MaxNow, MaxBoots, MaxTokens} \subseteq Nat \ {0}

VARIABLES
  now, boot,   \* the clock, and which start of the server this is
  tokens,      \* CSRF tokens made so far
  cookies,     \* [session, csrf, until]: what the browser sends
  tab,         \* per tab: [phase, origin, mutating, attempt, memory, request, answer]
  disturbed    \* per tab: what may refuse it has happened since it began
SessionVars == <<now, boot, tokens, cookies, tab, disturbed>>

Nothing == [boot |-> 0, issued |-> 0]
Server == [host |-> "localhost", port |-> 4173]
NoCookies == [session |-> Nothing, csrf |-> 0, until |-> 0]
NoRequest == [host |-> Server, origin |-> {}, session |-> Nothing, csrf |-> 0, header |-> 0, mutating |-> FALSE]

-----------------------------------------------------------------------------
(* The server.                                                             *)
ValidateSession(s) == s.boot = boot /\ now < s.issued + Lifetime
IsSameOrigin(o, host) == o.scheme = "http" /\ o.host = host.host /\ o.port = host.port
OriginAllowed(o, host) == IsSameOrigin(o, host) \/ o \in DevOrigins
Loopback == {"127.0.0.1", "localhost", "::1"}
EnforceSecurity(r) ==
  CASE r.host.host \notin Loopback -> "bad_request"
    [] r.host.host \in Loopback /\ (\E o \in r.origin : ~OriginAllowed(o, r.host)) -> "forbidden"
    [] OTHER -> IF ~ValidateSession(r.session) THEN "unauthorized"
                ELSE IF r.mutating /\ (r.csrf = 0 \/ r.header # r.csrf) THEN "forbidden" ELSE "ok"
(* The dashboard's pages are this server's, or the development server's.   *)
ASSUME OriginsAssumption == \A o \in Origins : OriginAllowed(o, Server)
\* Mutant: every session comes with a token of its own.
IssueBoth(r) == [session |-> [boot |-> boot, issued |-> now], csrf |-> tokens + 1]
IssueSession(r) ==
  [session |-> [boot |-> boot, issued |-> now],
   csrf |-> IF r.csrf # 0 THEN r.csrf ELSE tokens + 1]

-----------------------------------------------------------------------------
SessionInit ==
  /\ now = 1 /\ boot = 1 /\ tokens = 0 /\ cookies = NoCookies
  /\ tab \in [Tabs -> {[phase |-> "idle", origin |-> o, mutating |-> FALSE, attempt |-> 0, memory |-> 0,
                        request |-> NoRequest, answer |-> NoCookies] : o \in Origins}]
  /\ disturbed = [t \in Tabs |-> FALSE]

(* A tab's request, as the browser sends it, with the cookies it has now.       *)
Carry(t, header) ==
  [host |-> Server, origin |-> {tab[t].origin}, session |-> cookies.session, csrf |-> cookies.csrf,
   header |-> header, mutating |-> tab[t].mutating]
To(t, phase) == tab' = [tab EXCEPT ![t].phase = phase, ![t].request = NoRequest]
Stay == UNCHANGED <<now, boot, tokens, cookies>>

(* request: a change needs a token, and takes a session for it first.      *)
Begin(t) ==
  /\ tab[t].phase \in {"idle", "failed"} /\ Stay
  /\ \E mutating \in BOOLEAN :
       tab' = [tab EXCEPT ![t].phase = IF mutating /\ tab[t].memory = 0 THEN "establish" ELSE "ready",
                          ![t].mutating = mutating, ![t].attempt = 0]
  /\ disturbed' = [disturbed EXCEPT ![t] = FALSE]
EstablishSession(t) ==
  /\ tab[t].phase = "establish" /\ Stay
  /\ tab' = [tab EXCEPT ![t].phase = "posted", ![t].request = Carry(t, 0)]
  /\ UNCHANGED disturbed
IssueBrowserSession(t) ==
  /\ tab[t].phase = "posted"
  /\ LET issued == IssueSession(tab[t].request)
     IN  /\ issued.csrf =< MaxTokens
         /\ tokens' = IF issued.csrf > tokens THEN issued.csrf ELSE tokens
         /\ tab' = [tab EXCEPT ![t].phase = "issued",
                      ![t].answer = [session |-> issued.session, csrf |-> issued.csrf, until |-> now + Lifetime]]
  /\ UNCHANGED <<now, boot, cookies, disturbed>>
(* Another tab's cookies are replaced with this one's.                     *)
TakeSession(t) ==
  /\ tab[t].phase = "issued"
  /\ cookies' = [tab[t].answer EXCEPT !.until = now + Lifetime]
  /\ tab' = [tab EXCEPT ![t].phase = "ready", ![t].memory = tab[t].answer.csrf,
                     ![t].request = NoRequest, ![t].answer = NoCookies]
  /\ disturbed' = [u \in Tabs |-> disturbed[u] \/ (u # t /\ (tab[t].request.csrf # cookies.csrf \/ ~ValidateSession(tab[t].answer.session)))]
  /\ UNCHANGED <<now, boot, tokens>>
Fetch(t) ==
  /\ tab[t].phase = "ready" /\ Stay
  /\ tab' = [tab EXCEPT ![t].phase = "sent", ![t].request = Carry(t, tab[t].memory)]
  /\ UNCHANGED disturbed
Answered(t) ==
  /\ tab[t].phase = "sent" /\ Stay
  /\ IF EnforceSecurity(tab[t].request) = "ok" THEN To(t, "idle")
     ELSE IF tab[t].attempt = 0
     THEN tab' = [tab EXCEPT ![t].phase = "establish", ![t].attempt = 1, ![t].memory = 0, ![t].request = NoRequest]
     ELSE To(t, "failed")
  /\ UNCHANGED disturbed
(* refreshFactorySession, before a socket is opened.                       *)
Refresh(t) ==
  /\ tab[t].phase \in {"idle", "failed"} /\ Stay
  /\ tab' = [tab EXCEPT ![t].phase = "establish", ![t].memory = 0, ![t].mutating = FALSE, ![t].attempt = 0]
  /\ disturbed' = [disturbed EXCEPT ![t] = FALSE]

AllDisturbed == disturbed' = [t \in Tabs |-> TRUE]
SecondPasses ==
  /\ now < MaxNow /\ now' = now + 1
  /\ cookies' = IF cookies.until =< now' THEN NoCookies ELSE cookies
  /\ IF \E s \in {cookies.session} \cup {tab[t].request.session : t \in Tabs} \cup {tab[t].answer.session : t \in Tabs} :
          s # Nothing /\ now' >= s.issued + Lifetime
     THEN AllDisturbed ELSE UNCHANGED disturbed
  /\ UNCHANGED <<boot, tokens, tab>>
ServerRestarts ==
  /\ boot < MaxBoots /\ boot' = boot + 1 /\ AllDisturbed
  /\ UNCHANGED <<now, tokens, cookies, tab>>

SessionNext ==
  \/ \E t \in Tabs : \/ Begin(t) \/ EstablishSession(t) \/ IssueBrowserSession(t) \/ TakeSession(t)
                     \/ Fetch(t) \/ Answered(t) \/ Refresh(t)
  \/ SecondPasses \/ ServerRestarts
SessionSpec == SessionInit /\ [][SessionNext]_SessionVars

-----------------------------------------------------------------------------
(* A tab's request is refused for good only when, since it began, the      *)
(* server was restarted, a session ran out, or another tab received cookies*)
(* that it had asked for before the browser's token changed: never because *)
(* another tab has renewed its session.                                    *)
SessionsHold == \A t \in Tabs : tab[t].phase = "failed" => disturbed[t]
=============================================================================
