----------------------------- MODULE UsageFetch -----------------------------
(***************************************************************************)
(* One authenticated fetch of an account's usage (scheduler._fetch_one,    *)
(* app_server.py, direct.py).                                              *)
(*                                                                         *)
(* The fetch asks Codex' own server process over a pipe and, when that is  *)
(* not available, the usage service directly.  Neither answer says in full *)
(* whose values it carries, and auth.json belongs to Codex: another        *)
(* process may refresh its token or log in as somebody else at any time.   *)
(* The fetch therefore reads auth.json before and after and compares, and  *)
(* is strict about the identity in a direct answer when another configured *)
(* account could be meant.                                                 *)
(*                                                                         *)
(* A login is a record of user, account, plan and email; an account or     *)
(* plan that auth.json does not name is Unknown.  External: Codex and its  *)
(* server, and the usage service, which may answer a request for one       *)
(* account with the values of another one of the same user.                *)
(***************************************************************************)
EXTENDS Naturals, Sequences

CONSTANTS Logins,        \* what auth.json files may name
          MaxSwitches,   \* bound: changes of auth.json files during a fetch
          MaxRepeats     \* bound: answers that Codex' server sends twice

Unknown == 0
NoFile  == [user |-> Unknown, account |-> Unknown, plan |-> Unknown, email |-> Unknown]
NoData  == [of |-> NoFile, account |-> Unknown, plan |-> Unknown]
Readable(l) == l # NoFile      \* read_auth_json_file accepts the file
Lives   == {"good", "over"}   \* of the access token

VARIABLES
  login, token, life,    \* auth.json: whose it is, its token, how long it lasts
  neighbour,             \* the login of another configured account
  sharing,               \* the other account uses the same auth.json
  switches,              \* changes so far
  met, moved,            \* history: logins since the first read, any new login
  fetching,              \* where the fetch is
  strict,                \* reject_ambiguous_backend_identity
  route,                 \* backend_used
  held, heldToken,       \* what the fetch read from auth.json
  renew, again,          \* refresh; the second attempt
  serves,                \* the login Codex' server has loaded
  asked, inbox, repeats, \* the request it works on, its answers, those sent twice
  payload,               \* the values received
  record                 \* [status, of]

fileVars   == <<login, token, life, neighbour, sharing, switches, moved>>
heldVars   == <<held, heldToken, renew, again>>
serverVars == <<serves, asked, inbox, repeats>>
vars == <<login, token, life, neighbour, sharing, switches, met, moved, fetching, strict,
          route, held, heldToken, renew, again, serves, asked, inbox, repeats, payload, record>>

Real == {l \in Logins : l.account # Unknown}

Distinguish(p, q) == p # Unknown /\ q # Unknown /\ p # q

\* _ambiguous_direct_accounts, for this account and its neighbour.
Ambiguous ==
  \/ sharing
  \/ /\ Readable(login) /\ Readable(neighbour) /\ login.user = neighbour.user
     /\ \/ Unknown \in {login.account, neighbour.account}
        \/ /\ login.account # neighbour.account
           /\ ~Distinguish(login.plan, neighbour.plan)

\* A mutant of SameLogin: only the user is compared.
SameUser(l, m) == l.user = m.user

\* auth_identity_changed and _auth_plan_type_changed.
SameLogin(l, m) == l.user = m.user /\ l.account = m.account /\ l.plan = m.plan

Init ==
  /\ login \in Logins \union {NoFile} /\ life \in Lives /\ token = 1
  /\ neighbour \in Logins \union {NoFile} /\ sharing \in BOOLEAN
  /\ sharing => neighbour = login
  /\ switches = 0 /\ met = <<>> /\ moved = FALSE
  /\ fetching = "idle" /\ strict = FALSE /\ route = "app-server"
  /\ held = NoFile /\ heldToken = 0 /\ renew = FALSE /\ again = FALSE
  /\ serves = NoFile /\ asked = 0 /\ inbox = <<>> /\ repeats = 0
  /\ payload = NoData /\ record = [status |-> "none", of |-> NoFile]

Go(to)       == fetching' = to /\ UNCHANGED record
Finish(s, l) == fetching' = "done" /\ record' = [status |-> s, of |-> l]
Fail(s)      == Finish(s, NoFile)
StopServer   == serves' = NoFile /\ asked' = 0 /\ inbox' = <<>> /\ UNCHANGED repeats

\* fetch_all and _fetch_one: strictness is decided first, from both files.
Begin ==
  /\ fetching = "idle"
  /\ strict' = Ambiguous /\ moved' = FALSE
  /\ \/ route' = "app-server" /\ Go("context")
     \/ route' = "direct" /\ Go("load")
  /\ UNCHANGED <<login, token, life, neighbour, sharing, switches, met>>
  /\ UNCHANGED <<heldVars, serverVars, payload>>

(***************************************************************************)
(* Codex' server.                                                          *)
(***************************************************************************)
\* _auth_context, the first time.
Context ==
  /\ fetching = "context"
  /\ met' = <<login>>
  /\ \/ ~Readable(login) /\ Fail("login_required") /\ UNCHANGED heldVars
     \/ /\ Readable(login)
        /\ held' = login /\ heldToken' = token
        /\ again' = FALSE
        /\ renew' \in {life = "over", TRUE}   \* _should_refresh: or soon over
        /\ Go("start")
  /\ UNCHANGED <<fileVars, strict, route, serverVars, payload>>

FallBack == route' = "direct" /\ Go("load") /\ StopServer

StartServer ==
  /\ fetching = "start"
  /\ \/ /\ serves' = login /\ asked' = 1 /\ inbox' = <<>>
        /\ Go("initialize") /\ UNCHANGED <<repeats, route>>
     \/ FallBack
  /\ UNCHANGED <<fileVars, met, strict, heldVars, payload>>

\* What the server does with a request: one answer, now and then sent twice.
\* account/read with refreshToken loads the credentials anew.
Kinds == {"result", "bare", "auth", "unsupported", "failed"}
Answers ==
  /\ asked # 0 /\ asked' = 0
  /\ serves' = IF fetching = "account" /\ (renew \/ again) THEN login ELSE serves
  /\ \E kind \in IF serves' = NoFile /\ fetching # "initialize" THEN {"auth"} ELSE Kinds,
        extra \in 0..(MaxRepeats - repeats) :
       /\ repeats' = repeats + extra
       /\ inbox' = inbox \o [i \in 1..(1 + extra) |-> [id |-> asked, kind |-> kind, of |-> serves']]
  /\ UNCHANGED <<fileVars, met, fetching, strict, route, heldVars, payload, record>>

Exits ==
  /\ asked # 0 /\ asked' = 0
  /\ inbox' = Append(inbox, [id |-> 0, kind |-> "end", of |-> NoFile])
  /\ UNCHANGED <<fileVars, met, fetching, strict, route, heldVars, serves, repeats, payload, record>>

\* The request ids of the two attempts; 4 is used by both.
IdOf(request, second) ==
  CASE request = "initialize" -> 1
    [] request = "account"    -> IF second THEN 4 ELSE 2
    [] request = "limits"     -> IF second THEN 5 ELSE 3
    [] request = "models"     -> IF second THEN 6 ELSE 4
Talking == {"initialize", "account", "limits", "models"}
Ask(request) == Go(request) /\ asked' = IdOf(request, again')

\* account/read names the login the server works with, or only a part of it.
AccountFits(m) ==
  m.kind = "bare" \/ (~Distinguish(m.of.plan, held.plan) /\ m.of.email = held.email)

\* AppServerAuthError: a second attempt, with the token refreshed.
AuthError ==
  IF fetching = "initialize" \/ renew \/ again
    THEN Fail("login_required") /\ StopServer /\ UNCHANGED again
    ELSE again' = TRUE /\ Ask("account") /\ UNCHANGED serves

TakeResult(m) ==
  CASE fetching = "initialize" -> Ask("account") /\ UNCHANGED <<serves, payload>>
    [] fetching = "account" -> Ask("limits") /\ UNCHANGED <<serves, payload>>
    [] fetching = "limits" ->
         /\ payload' = [of |-> m.of, account |-> Unknown, plan |-> Unknown]
         /\ Ask("models") /\ UNCHANGED serves
    [] fetching = "models" -> Go("reread") /\ asked' = 0 /\ serves' = NoFile /\ UNCHANGED payload

\* _response_for: answers to other requests are skipped.
Receive ==
  /\ fetching \in Talking /\ inbox # <<>>
  /\ LET m == Head(inbox)
         mine == m.id = IdOf(fetching, again)
         fits == m.kind \in {"result", "bare"} /\ (fetching = "account" => AccountFits(m))
     IN  \/ /\ m.kind # "end" /\ ~mine
            /\ inbox' = Tail(inbox)
            /\ UNCHANGED <<fetching, record, serves, asked, repeats, route, again, payload>>
         \/ /\ mine /\ fits
            /\ inbox' = Tail(inbox)
            /\ UNCHANGED <<repeats, route, again>> /\ TakeResult(m)
         \/ /\ mine /\ ~fits /\ m.kind \in {"result", "bare", "auth"}
            /\ inbox' = IF renew \/ again \/ fetching = "initialize" THEN <<>> ELSE Tail(inbox)
            /\ UNCHANGED <<repeats, route, payload>> /\ AuthError
         \/ /\ m.kind = "end" \/ (mine /\ m.kind = "unsupported")
            /\ FallBack /\ UNCHANGED <<again, payload>>
         \/ /\ mine /\ m.kind = "failed"
            /\ Fail("error") /\ StopServer /\ UNCHANGED <<route, again, payload>>
  /\ UNCHANGED <<fileVars, met, strict, held, heldToken, renew>>

\* The deadline, or a pipe that cannot be written.
TimeOut ==
  /\ fetching \in Talking
  /\ Fail("error") /\ StopServer
  /\ UNCHANGED <<fileVars, met, strict, route, heldVars, payload>>

\* auth.json is read again and compared.
Compare ==
  /\ fetching = "reread"
  /\ IF Readable(login) /\ SameLogin(held, login) /\ held.email = login.email
       THEN Finish("ok", login) ELSE Fail("login_required")
  /\ UNCHANGED <<fileVars, met, strict, route, heldVars, serverVars, payload>>

(***************************************************************************)
(* The usage service.                                                      *)
(***************************************************************************)
Load ==
  /\ fetching = "load"
  /\ met' = <<login>>
  /\ \/ /\ ~Readable(login) \/ life = "over"
        /\ Fail("login_required") /\ UNCHANGED heldVars
     \/ /\ Readable(login) /\ life # "over"
        /\ held' = login /\ heldToken' = token /\ again' = FALSE
        /\ Go("sample") /\ UNCHANGED renew
  /\ UNCHANGED <<fileVars, strict, route, serverVars, payload>>

\* _fetch_stable_wham_usage: the samples agree on one answer, whose account
\* may be named by the id of its user.
Sample ==
  /\ fetching = "sample"
  /\ \/ /\ \E l \in {r \in Real : r.user = held.user} :
             \E account \in {l.account, l.user}, plan \in {l.plan, Unknown} :
               payload' = [of |-> l, account |-> account, plan |-> plan]
        /\ Go("check")
     \/ Fail("error") /\ UNCHANGED payload
  /\ UNCHANGED <<fileVars, met, strict, route, heldVars, serverVars>>

\* HTTP 401 or 403: once more with a token that is new and of the same login.
Refused ==
  /\ fetching = "sample"
  /\ IF ~again /\ Readable(login) /\ SameLogin(held, login) /\ token # heldToken /\ life # "over"
       THEN held' = login /\ heldToken' = token /\ again' = TRUE /\ Go("sample")
       ELSE Fail("login_required") /\ UNCHANGED <<held, heldToken, again>>
  /\ UNCHANGED <<fileVars, met, strict, route, renew, serverVars, payload>>

\* canonical_backend_identity with _response_identity_matches_auth.
Fits(l, p) ==
  /\ strict => l.account # Unknown /\ p.account = l.account
  /\ ~Distinguish(l.plan, p.plan)
  /\ ~(l.plan # Unknown /\ l.account # Unknown /\ p.account = l.user /\ p.plan = Unknown)
  /\ p.account \in {l.account, l.user} \ {Unknown}

\* auth.json is read again and compared, then the answer is held against it;
\* fetch_all refuses an answer when the file is not this account's own.
Check ==
  /\ fetching = "check"
  /\ \/ /\ ~Readable(login) \/ ~SameLogin(held, login)
        /\ Fail("login_required")
     \/ /\ Readable(login) /\ SameLogin(held, login)
        /\ IF Fits(login, payload) /\ ~sharing THEN Finish("ok", login) ELSE Fail("error")
  /\ UNCHANGED <<fileVars, met, strict, route, heldVars, serverVars, payload>>

(***************************************************************************)
(* Other processes change auth.json files, and tokens expire.              *)
(***************************************************************************)
Switch ==
  /\ switches < MaxSwitches /\ switches' = switches + 1 /\ fetching \notin {"idle", "done"}
  /\ \/ /\ login' \in Logins \union {NoFile} /\ life' = "good" /\ token' = token + 1
        /\ neighbour' = IF sharing THEN login' ELSE neighbour
        /\ met' = Append(met, login') /\ moved' = (moved \/ (login' # login))
     \/ /\ life = "good" /\ life' = "over" /\ UNCHANGED <<login, token, neighbour, met, moved>>
     \/ /\ ~sharing /\ neighbour' \in (Logins \union {NoFile}) \ {neighbour}
        /\ moved' = TRUE /\ UNCHANGED <<login, life, token, met>>
  /\ UNCHANGED <<sharing, fetching, strict, route, heldVars, serverVars, payload, record>>

Next ==
  \/ Begin \/ Context \/ StartServer \/ Answers \/ Exits \/ Receive \/ TimeOut \/ Compare
  \/ Load \/ Sample \/ Refused \/ Check \/ Switch

Spec == Init /\ [][Next]_vars

(***************************************************************************)
(* Properties.                                                             *)
(***************************************************************************)
TypeOK ==
  /\ {login, neighbour, held, serves} \subseteq Logins \union {NoFile}
  /\ fetching \in Talking \union {"idle", "context", "start", "reread", "load", "sample", "check", "done"}
  /\ route \in {"app-server", "direct"} /\ asked \in 0..6 /\ Len(inbox) <= MaxRepeats + 1
  /\ record.status \in {"none", "ok", "error", "login_required"}

\* What a successful fetch records under the login of auth.json are the values
\* of that login (app_server.py:113-130, direct.py:160-203), or of its account
\* under a plan that the answer does not name.  Two cases are beyond what the
\* code can tell: Codex' server worked while another process had logged in as
\* somebody else and back again; and a direct answer of another account of the
\* same user, of no other plan or with nothing to compare, that is not one of
\* the configured accounts as they were when the fetch began.
AnswerIsOwn ==
  record.status = "ok" =>
    LET whose == payload.of   mine == record.of IN
    \/ whose = mine
    \/ /\ route = "app-server" /\ mine = Head(met)
       /\ \E i \in 1..Len(met) : met[i] = whose
    \/ /\ route = "direct" /\ whose.user = mine.user
       /\ \/ whose.account = mine.account
          \/ /\ ~strict
             /\ \/ ~Distinguish(whose.plan, mine.plan)
                \/ mine.account = Unknown /\ payload.plan = Unknown
             /\ whose # neighbour \/ moved

(***************************************************************************)
(* What makes the property inductive.                                      *)
(***************************************************************************)

\* What the proofs need of the constants: users are known, and no account has the
\* id of a user.
FetchConstants ==
  /\ Logins \subseteq [user : Nat, account : Nat, plan : Nat, email : Nat]
  /\ \A l, m \in Logins : l.user # Unknown /\ l.account # m.user
  /\ MaxRepeats \in Nat

AuthFiles == Logins \union {NoFile}
Messages == [id : Nat, kind : Kinds \union {"end"}, of : AuthFiles]
Stages   == Talking \union {"start", "reread"}      \* of a fetch by Codex' server
Met      == {met[i] : i \in 1..Len(met)}

ValuesOK ==
  /\ login \in AuthFiles /\ neighbour \in AuthFiles /\ held \in AuthFiles /\ serves \in AuthFiles
  /\ met \in Seq(AuthFiles) /\ inbox \in Seq(Messages)
  /\ asked \in Nat /\ repeats \in Nat
  /\ sharing => neighbour = login
  /\ fetching \notin Talking => asked = 0
  /\ fetching = "context" => route = "app-server"
  /\ fetching # "done" => record.status # "ok"

\* The server works with a login that the fetch has met since its first look, the
\* present one is the last of them and the one it holds the first.
ServerKnown ==
  fetching \in Stages =>
    /\ route = "app-server"
    /\ met # <<>> /\ met[Len(met)] = login /\ held = Head(met)
    /\ fetching \in Talking =>
         /\ serves \in Met
         /\ \A k \in DOMAIN inbox : inbox[k].kind # "end" => inbox[k].of \in Met
    /\ fetching \in {"models", "reread"} => payload.of \in Met

\* A direct answer is of somebody with the user that the fetch holds.
DirectKnown ==
  /\ fetching \in {"load", "sample", "check"} => route = "direct"
  /\ fetching = "check" =>
       /\ payload.of \in Real /\ payload.of.user = held.user
       /\ payload.account \in {payload.of.account, payload.of.user}
       /\ payload.plan \in {payload.of.plan, Unknown}

\* The strictness is that of the files as long as they are the same.
StrictnessHolds == fetching # "idle" /\ ~moved => strict = Ambiguous

\* Where a fetch is has a name, and an answer that waits belongs to a request that is
\* no longer worked on, or was sent twice.
Named ==
  /\ route \in {"app-server", "direct"}
  /\ fetching \in Talking \union {"idle", "context", "start", "reread", "load", "sample",
                                "check", "done"}
  /\ record.status \in {"none", "ok", "error", "login_required"}
AnswersCounted ==
  /\ asked \in 0..6 /\ repeats \in 0..MaxRepeats
  /\ Len(inbox) <= repeats + (IF asked = 0 THEN 1 ELSE 0)

FetchInv == ValuesOK /\ ServerKnown /\ DirectKnown /\ StrictnessHolds /\ AnswerIsOwn
=============================================================================
