---------------------------- MODULE AuthSessions ----------------------------
(***************************************************************************)
(* Sign-in, session rotation and sign-out of one user in one browser whose *)
(* tabs share their cookies. A handler is cut where its transaction waits: *)
(* login and mfa/verify read the user row, and refresh its session row,    *)
(* FOR UPDATE; logout and revoke read without a lock and wait for the row  *)
(* when they write it. A row is held by the tab whose handler is between   *)
(* its locking read and its commit, so no variable stands for the locks.   *)
(* The refresh token and the CSRF token of a session are always set and    *)
(* compared together and are one token here.                               *)
(***************************************************************************)
EXTENDS Integers, FiniteSets

CONSTANTS Tab,          \* the tabs of the browser
          Recovery,     \* the recovery codes of the user
          Limit,        \* failures that lock the account (10 in the code)
          Window,       \* how long it stays locked, in ticks
          Life,         \* how long a session lives, in ticks
          MaxSessions, MaxTokens, MaxTime, MaxRequests, MaxFails   \* bounds

Session == 1..MaxSessions
Token == 1..MaxTokens
Time == 0..MaxTime
Code == Time \cup Recovery    \* a TOTP code is named by its time step

ASSUME AuthAssumption ==
  /\ Limit \in Nat \ {0} /\ Window \in Nat \ {0} /\ Life \in Nat \ {0}
  /\ MaxSessions \in Nat /\ MaxTokens \in Nat /\ MaxTime \in Nat
  /\ MaxRequests \in Nat /\ MaxFails \in Nat
  /\ Recovery \cap Int = {}

VARIABLES
  now,
  pw, mfa,       \* failure counters of the user: n, and locked until (0: not locked)
  enabled,       \* totp_enabled
  last, codes,   \* totp_last_step, totp_recovery_hashes
  sess,          \* the session rows: cur and prev token, revoked, expires
  sessions, tokens,   \* how many have been issued
  jar,           \* the cookies: refresh token, session of the access token, its expiry
  at, mem,       \* per tab: what its request does next, and what it holds
  requests, fails,   \* begun, cut off
  wrong,         \* wrong passwords and codes checked since the last reset
  used,          \* used[c]: how many sign-ins the code c has completed
  rotated,       \* rotated[k]: how many refreshes the token k has completed
  signedOut,     \* the sessions whose cookies a completed logout carried
  blamed,        \* the sessions revoked because a token came back
  mishap,        \* a refresh got no answer, or two refreshes carried one token
  astray         \* the sessions a refresh of which met a logout, or got no answer

account == <<pw, mfa, last, codes>>
rows == <<sess, sessions, tokens>>
history == <<wrong, used, rotated, signedOut, blamed, mishap, astray>>
vars == <<now, account, enabled, rows, jar, at, mem, requests, fails, history>>

NoRow == [cur |-> 0, prev |-> 0, revoked |-> FALSE, expires |-> 0]
NoJar == [token |-> 0, sid |-> 0, until |-> 0]
Zero == [n |-> 0, until |-> 0]
(* What a tab holds: its MFA challenge, the code or token that it sent and  *)
(* the session that the token's cookies meant, the row and the counters     *)
(* that its handler read, the cookies of the answer.                        *)
Blank == [challenge |-> FALSE, right |-> FALSE, code |-> 0, token |-> 0,
          meant |-> 0, row |-> 0, counter |-> Zero, last |-> -1, codes |-> {}, reply |-> NoJar]

Init ==
  /\ now = 0
  /\ pw = Zero /\ mfa = Zero /\ last = -1
  /\ enabled \in BOOLEAN
  /\ codes = IF enabled THEN Recovery ELSE {}
  /\ sess = [s \in Session |-> NoRow] /\ sessions = 0 /\ tokens = 0
  /\ jar = NoJar
  /\ at = [t \in Tab |-> "idle"]
  /\ mem = [t \in Tab |-> Blank]
  /\ requests = 0 /\ fails = 0
  /\ wrong = [pw |-> 0, mfa |-> 0]
  /\ used = [c \in Code |-> 0] /\ rotated = [k \in Token |-> 0]
  /\ signedOut = {} /\ blamed = {} /\ mishap = FALSE /\ astray = {}

(* Mutant: login and mfa/verify read the user row without FOR UPDATE. *)
UserFreeNoLock(t) == TRUE
(* Mutant: refresh reads its session row without FOR UPDATE. *)
RowFreeNoLock(s, t) == TRUE
UserFree(t) == \A u \in Tab \ {t} : at[u] \notin {"login.check", "verify.check"}
RowFree(s, t) == \A u \in Tab \ {t} : at[u] # "refresh.rotate" \/ mem[u].row # s

Goto(t, step) == at' = [at EXCEPT ![t] = step]
Hold(t, memory) == mem' = [mem EXCEPT ![t] = memory]
Finish(t) == Goto(t, "idle") /\ Hold(t, Blank)

Tick ==
  /\ now < MaxTime /\ now' = now + 1
  /\ UNCHANGED <<requests, account, enabled, rows, jar, at, mem, fails, history>>

-----------------------------------------------------------------------------
(* login_access_token and verify_mfa_challenge *)

Locked(counter) == counter.until > now

(* _record_failed_auth and _record_failed_mfa: a lock that has run out     *)
(* starts the count again.                                                 *)
Failed(counter) ==
  LET n == IF counter.until # 0 /\ counter.until <= now THEN 1 ELSE counter.n + 1
  IN  [n |-> n, until |-> IF n >= Limit THEN now + Window ELSE 0]

(* How many wrong guesses the current count stands for. *)
Guesses(before, counter) ==
  IF counter.until # 0 /\ counter.until <= now THEN 1 ELSE before + 1

Login(t, right) ==
  /\ at[t] = "idle" /\ requests < MaxRequests
  /\ requests' = requests + 1
  /\ Goto(t, "login.read") /\ Hold(t, [Blank EXCEPT !.right = right])
  /\ UNCHANGED <<now, account, enabled, rows, jar, fails, history>>

LoginRead(t) ==                       \* SELECT ... FOR UPDATE
  /\ at[t] = "login.read" /\ UserFree(t)
  /\ Goto(t, "login.check") /\ Hold(t, [mem[t] EXCEPT !.counter = pw])
  /\ UNCHANGED <<now, requests, account, enabled, rows, jar, fails, history>>

LoginRefused(t) ==
  /\ at[t] = "login.check"
  /\ Locked(mem[t].counter) \/ ~mem[t].right
  /\ \/ Locked(mem[t].counter) /\ UNCHANGED <<pw, wrong>>
     \/ /\ ~Locked(mem[t].counter)
        /\ pw' = Failed(mem[t].counter)
        /\ wrong' = [wrong EXCEPT !.pw = Guesses(@, pw)]
  /\ Finish(t)
  /\ UNCHANGED <<now, requests, mfa, last, codes, enabled, rows, jar, fails, used, rotated, signedOut, blamed, mishap, astray>>

LoginAccepted(t) ==
  /\ at[t] = "login.check" /\ ~Locked(mem[t].counter) /\ mem[t].right
  /\ pw' = Zero /\ wrong' = [wrong EXCEPT !.pw = 0]
  /\ \/ enabled /\ Goto(t, "challenged") /\ Hold(t, [Blank EXCEPT !.challenge = TRUE])
     \/ ~enabled /\ Goto(t, "issue") /\ Hold(t, Blank)
  /\ UNCHANGED <<now, requests, mfa, last, codes, enabled, rows, jar, fails, used, rotated, signedOut, blamed, mishap, astray>>

(* The challenge is a signed token that the server does not record: a tab  *)
(* may use it again after a refused code.                                  *)
Verify(t, code) ==
  /\ at[t] = "challenged" /\ requests < MaxRequests
  /\ code \in Recovery \/ code \in {now - 1, now} \cap Time
  /\ requests' = requests + 1
  /\ Goto(t, "verify.read") /\ Hold(t, [Blank EXCEPT !.challenge = TRUE, !.code = code])
  /\ UNCHANGED <<now, account, enabled, rows, jar, fails, history>>

VerifyRead(t) ==                      \* SELECT ... FOR UPDATE
  /\ at[t] = "verify.read" /\ UserFree(t)
  /\ Goto(t, "verify.check")
  /\ Hold(t, [mem[t] EXCEPT !.counter = mfa, !.last = last, !.codes = codes])
  /\ UNCHANGED <<now, requests, account, enabled, rows, jar, fails, history>>

(* Mutant: the last step used is accepted again. *)
NewStepOrLast(code, m) == code \in Int /\ code \in now - 1 .. now + 1 /\ code >= m.last

(* _totp_step: a code of this step or of a neighbour, newer than the last  *)
(* one used. _consume_mfa_code falls back on the recovery codes.           *)
NewStep(code, m) == code \in Int /\ code \in now - 1 .. now + 1 /\ code > m.last
Consumable(code, m) == NewStep(code, m) \/ code \in m.codes

VerifyRefused(t) ==
  /\ at[t] = "verify.check"
  /\ Locked(mem[t].counter) \/ ~Consumable(mem[t].code, mem[t])
  /\ \/ Locked(mem[t].counter) /\ UNCHANGED <<mfa, wrong>>
     \/ /\ ~Locked(mem[t].counter)
        /\ mfa' = Failed(mem[t].counter)
        /\ wrong' = [wrong EXCEPT !.mfa = Guesses(@, mfa)]
  /\ Goto(t, "challenged") /\ Hold(t, [Blank EXCEPT !.challenge = TRUE])
  /\ UNCHANGED <<now, requests, pw, last, codes, enabled, rows, jar, fails, used, rotated, signedOut, blamed, mishap, astray>>

VerifyAccepted(t) ==
  LET m == mem[t] IN
  /\ at[t] = "verify.check" /\ ~Locked(m.counter) /\ Consumable(m.code, m)
  /\ IF NewStep(m.code, m)
     THEN last' = m.code /\ UNCHANGED codes
     ELSE codes' = m.codes \ {m.code} /\ UNCHANGED last
  /\ mfa' = Zero
  /\ used' = [used EXCEPT ![m.code] = @ + 1] /\ wrong' = [wrong EXCEPT !.mfa = 0]
  /\ Goto(t, "issue") /\ Hold(t, Blank)
  /\ UNCHANGED <<now, requests, pw, enabled, rows, jar, fails, rotated, signedOut, blamed, mishap, astray>>

Abandon(t) ==                         \* the user leaves the code form
  /\ at[t] = "challenged" /\ Finish(t)
  /\ UNCHANGED <<now, requests, account, enabled, rows, jar, fails, history>>

(* Mutant: a refresh leaves the refresh cookie as it is. *)
CookiesAccessOnly(s, token) ==
  [token |-> IF jar.token # 0 THEN jar.token ELSE token, sid |-> s, until |-> now + 1]

(* The access cookie lives one tick; the session lives Life ticks. *)
Cookies(s, token) == [token |-> token, sid |-> s, until |-> now + 1]

Issue(t) ==                           \* _issue_session, in its own transaction
  LET s == sessions + 1  k == tokens + 1 IN
  /\ at[t] = "issue" /\ s \in Session /\ k \in Token
  /\ sess' = [sess EXCEPT ![s] = [cur |-> k, prev |-> 0, revoked |-> FALSE, expires |-> now + Life]]
  /\ sessions' = s /\ tokens' = k
  /\ Goto(t, "reply") /\ Hold(t, [Blank EXCEPT !.reply = Cookies(s, k)])
  /\ UNCHANGED <<now, requests, account, enabled, jar, fails, history>>

-----------------------------------------------------------------------------
(* Calls with the cookies: get_current_user, fetchApi, refresh_session *)

Admitted(cookies) ==
  /\ cookies.sid # 0 /\ now < cookies.until
  /\ ~sess[cookies.sid].revoked /\ now < sess[cookies.sid].expires

Call(t) ==                            \* a read; it is answered at once
  /\ at[t] = "idle" /\ requests < MaxRequests /\ ~Admitted(jar)
  /\ requests' = requests + 1
  /\ Goto(t, "refresh.send")
  /\ UNCHANGED <<now, account, enabled, rows, jar, mem, fails, history>>

Flight == {"refresh.read", "refresh.rotate", "refresh.reuse", "refresh.reply"}
Refreshing(s) == \E u \in Tab : at[u] \in Flight /\ mem[u].meant = s
SigningOut(s) == \E u \in Tab : at[u] = "logout.read" /\ mem[u].meant = s

(* refreshApiSession: a tab has at most one refresh under way. *)
RefreshSend(t) ==
  /\ at[t] = "refresh.send"
  /\ \/ jar.token = 0 /\ Finish(t) /\ UNCHANGED <<mishap, astray>>      \* 401, the login page
     \/ /\ jar.token # 0
        /\ Goto(t, "refresh.read")
        /\ Hold(t, [Blank EXCEPT !.token = jar.token, !.meant = jar.sid])
        /\ mishap' = (mishap \/ \E u \in Tab : at[u] \in Flight /\ mem[u].token = jar.token)
        /\ astray' = astray \cup {s \in {jar.sid} : SigningOut(s)}
  /\ UNCHANGED <<now, requests, account, enabled, rows, jar, fails, wrong, used, rotated, signedOut, blamed>>

Owner(token) == {s \in Session : sess[s].cur = token}
Former(token) == {s \in Session : sess[s].prev = token /\ ~sess[s].revoked}

(* SELECT ... FOR UPDATE by the token: a statement that waited for the row *)
(* evaluates its condition again on what was committed meanwhile.          *)
Usable(s) == ~sess[s].revoked /\ now < sess[s].expires

RefreshRead(t) ==
  LET k == mem[t].token IN
  /\ at[t] = "refresh.read" /\ \A s \in Owner(k) : RowFree(s, t)
  /\ \/ \E s \in Owner(k) :
          Usable(s) /\ Goto(t, "refresh.rotate") /\ Hold(t, [mem[t] EXCEPT !.row = s])
     \/ /\ Owner(k) = {}
        /\ \E s \in Former(k) : Goto(t, "refresh.reuse") /\ Hold(t, [mem[t] EXCEPT !.row = s])
  /\ UNCHANGED <<now, requests, account, enabled, rows, jar, fails, history>>

RefreshEnded(t) ==                    \* 401: revoked, expired or unknown
  LET k == mem[t].token IN
  /\ at[t] = "refresh.read" /\ \A s \in Owner(k) : RowFree(s, t) /\ ~Usable(s)
  /\ Owner(k) = {} => Former(k) = {}
  /\ Finish(t)
  /\ UNCHANGED <<now, requests, account, enabled, rows, jar, fails, history>>

Rotated(row, token) == [row EXCEPT !.prev = row.cur, !.cur = token]

RefreshRotate(t) ==
  LET s == mem[t].row  k == tokens + 1 IN
  /\ at[t] = "refresh.rotate" /\ k \in Token
  /\ sess' = [sess EXCEPT ![s] = Rotated(@, k)] /\ tokens' = k
  /\ rotated' = [rotated EXCEPT ![mem[t].token] = @ + 1]
  /\ Goto(t, "refresh.reply") /\ Hold(t, [mem[t] EXCEPT !.reply = Cookies(s, k)])
  /\ UNCHANGED <<now, requests, account, enabled, sessions, jar, fails, wrong, used, signedOut, blamed, mishap, astray>>

RefreshReuse(t) ==                    \* the UPDATE waits for the row
  LET s == mem[t].row IN
  /\ at[t] = "refresh.reuse" /\ RowFree(s, t)
  /\ sess' = [sess EXCEPT ![s].revoked = TRUE]
  /\ blamed' = blamed \cup {s}
  /\ Finish(t)
  /\ UNCHANGED <<now, requests, account, enabled, sessions, tokens, jar, fails, wrong, used, rotated, signedOut, mishap, astray>>

(* The answer of a sign-in or of a refresh; the call is then made again. *)
Receive(t) ==
  /\ at[t] \in {"reply", "refresh.reply"}
  /\ jar' = mem[t].reply
  /\ Finish(t)
  /\ UNCHANGED <<now, requests, account, enabled, rows, fails, history>>

-----------------------------------------------------------------------------
(* logout and revoke_session *)

Logout(t) ==
  /\ at[t] = "idle" /\ requests < MaxRequests /\ jar.token # 0
  /\ requests' = requests + 1
  /\ Goto(t, "logout.read") /\ Hold(t, [Blank EXCEPT !.token = jar.token, !.meant = jar.sid])
  /\ astray' = astray \cup {s \in {jar.sid} : Refreshing(s)}
  /\ UNCHANGED <<now, account, enabled, rows, jar, fails, wrong, used, rotated, signedOut, blamed, mishap>>

LogoutFound(t) ==                     \* by its current token, without a lock
  /\ at[t] = "logout.read"
  /\ \E s \in Owner(mem[t].token) :
       ~sess[s].revoked /\ Goto(t, "logout.write") /\ Hold(t, [mem[t] EXCEPT !.row = s])
  /\ UNCHANGED <<now, requests, account, enabled, rows, jar, fails, history>>

LogoutNothing(t) ==
  /\ at[t] = "logout.read" /\ \A s \in Owner(mem[t].token) : sess[s].revoked
  /\ signedOut' = signedOut \cup {mem[t].meant}
  /\ Goto(t, "logout.reply") /\ UNCHANGED mem
  /\ UNCHANGED <<now, requests, account, enabled, rows, jar, fails, wrong, used, rotated, blamed, mishap, astray>>

(* Mutant: the session is not revoked, only the cookies are cleared. *)
LogoutWriteCookiesOnly(t) ==
  /\ at[t] = "logout.write" /\ RowFree(mem[t].row, t)
  /\ signedOut' = signedOut \cup {mem[t].meant}
  /\ Goto(t, "logout.reply") /\ UNCHANGED mem
  /\ UNCHANGED <<now, requests, account, enabled, rows, jar, fails, wrong, used, rotated, blamed, mishap, astray>>

LogoutWrite(t) ==
  /\ at[t] = "logout.write" /\ RowFree(mem[t].row, t)
  /\ sess' = [sess EXCEPT ![mem[t].row].revoked = TRUE]
  /\ signedOut' = signedOut \cup {mem[t].meant}
  /\ Goto(t, "logout.reply") /\ UNCHANGED mem
  /\ UNCHANGED <<now, requests, account, enabled, sessions, tokens, jar, fails, wrong, used, rotated, blamed, mishap, astray>>

LogoutReply(t) ==                     \* the answer clears the cookies
  /\ at[t] = "logout.reply"
  /\ jar' = NoJar /\ Finish(t)
  /\ UNCHANGED <<now, requests, account, enabled, rows, fails, history>>

Revoke(t, s) ==                       \* from the list of active sessions
  /\ at[t] = "idle" /\ requests < MaxRequests /\ Admitted(jar)
  /\ s \in 1..sessions /\ ~sess[s].revoked
  /\ requests' = requests + 1
  /\ Goto(t, "revoke.write") /\ Hold(t, [Blank EXCEPT !.row = s])
  /\ UNCHANGED <<now, account, enabled, rows, jar, fails, history>>

RevokeWrite(t) ==
  /\ at[t] = "revoke.write" /\ RowFree(mem[t].row, t)
  /\ sess' = [sess EXCEPT ![mem[t].row].revoked = TRUE]
  /\ Finish(t)
  /\ UNCHANGED <<now, requests, account, enabled, sessions, tokens, jar, fails, history>>

(* A request that is cut off: an open transaction is rolled back and the   *)
(* browser gets no answer.                                                 *)
Fail(t) ==
  /\ at[t] \notin {"idle", "challenged"} /\ fails < MaxFails
  /\ fails' = fails + 1
  /\ mishap' = (mishap \/ at[t] = "refresh.reply")
  /\ astray' = astray \cup {s \in {mem[t].meant} : at[t] = "refresh.reply"}
  /\ Finish(t)
  /\ UNCHANGED <<now, requests, account, enabled, rows, jar, wrong, used, rotated, signedOut, blamed>>

SignIn(t) ==
  \/ \E right \in BOOLEAN : Login(t, right)
  \/ LoginRead(t) \/ LoginRefused(t) \/ LoginAccepted(t)
  \/ \E code \in Code : Verify(t, code)
  \/ VerifyRead(t) \/ VerifyRefused(t) \/ VerifyAccepted(t)
  \/ Abandon(t) \/ Issue(t)
Refresh(t) ==
  \/ Call(t) \/ RefreshSend(t) \/ RefreshRead(t) \/ RefreshEnded(t)
  \/ RefreshRotate(t) \/ RefreshReuse(t) \/ Receive(t)
SignOut(t) ==
  \/ Logout(t) \/ LogoutFound(t) \/ LogoutNothing(t) \/ LogoutWrite(t) \/ LogoutReply(t)
  \/ \E s \in Session : Revoke(t, s)
  \/ RevokeWrite(t)

Next == Tick \/ \E t \in Tab : SignIn(t) \/ Refresh(t) \/ SignOut(t) \/ Fail(t)

Spec == Init /\ [][Next]_vars

-----------------------------------------------------------------------------
(* Properties *)

Counter == [n : 0..Limit, until : 0..MaxTime + Window]
Cookie == [token : {0} \cup Token, sid : {0} \cup Session, until : 0..MaxTime + 1]
SessionRow == [cur : {0} \cup Token, prev : {0} \cup Token, revoked : BOOLEAN,
               expires : 0..MaxTime + Life]
Memory == [challenge : BOOLEAN, right : BOOLEAN, code : Code, token : {0} \cup Token,
           meant : {0} \cup Session, row : {0} \cup Session, counter : Counter, last : {-1} \cup Time,
           codes : SUBSET Recovery, reply : Cookie]
Point == {"idle", "login.read", "login.check", "challenged", "verify.read", "verify.check",
          "issue", "reply", "refresh.send", "refresh.read", "refresh.rotate", "refresh.reuse",
          "refresh.reply", "logout.read", "logout.write", "logout.reply", "revoke.write"}

(* Every variable keeps its type; a step that writes a session row holds   *)
(* the id of one, and no counter of failures passes the limit.             *)
AuthTypeOK ==
  /\ now \in Time
  /\ pw \in Counter /\ mfa \in Counter
  /\ enabled \in BOOLEAN /\ last \in {-1} \cup Time /\ codes \subseteq Recovery
  /\ sess \in [Session -> SessionRow]
  /\ sessions \in {0} \cup Session /\ tokens \in {0} \cup Token
  /\ jar \in Cookie
  /\ at \in [Tab -> Point]
  /\ mem \in [Tab -> Memory]
  /\ \A t \in Tab : at[t] \in {"refresh.rotate", "refresh.reuse", "logout.write", "revoke.write"}
                      => mem[t].row \in Session
  /\ requests \in Nat /\ fails \in Nat
  /\ wrong \in [pw : Nat, mfa : Nat]
  /\ used \in [Code -> Nat] /\ rotated \in [Token -> Nat]
  /\ signedOut \cup astray \subseteq {0} \cup Session /\ blamed \subseteq Session
  /\ mishap \in BOOLEAN

(* Between two resets no more than Limit wrong passwords, and no more than *)
(* Limit wrong codes, are ever checked, however the requests of several    *)
(* tabs overlap (_record_failed_auth, _record_failed_mfa).                 *)
LockoutHolds == wrong.pw <= Limit /\ wrong.mfa <= Limit

(* A TOTP step or a recovery code completes at most one sign-in, also when *)
(* two tabs send it at once (_consume_mfa_code).                           *)
CodeOnce == \A c \in Code : used[c] <= 1

(* A refresh token is exchanged for a new one at most once, also when two  *)
(* tabs send it at once (refresh_session).                                 *)
TokenOnce == \A k \in Token : rotated[k] <= 1

(* "logout, expiry, and session revocation take effect on the next request" *)
(* (docs/SECURITY.md:24): once a logout has been answered, the session whose *)
(* cookies it carried is revoked.                                           *)
LogoutEnds == \A s \in signedOut : sess[s].revoked

(* A logout ends the session that it meant, whatever other requests came    *)
(* between its read and its write, except a session of which a refresh was  *)
(* under way when the logout was sent, or before it was read, or lost its   *)
(* answer: logout looks for the token that the browser held (auth.py:349).  *)
LogoutEndsAlone == \A s \in signedOut \ astray : sess[s].revoked

(* A session is revoked for the reuse of a token only if a refresh was     *)
(* left without its answer or two refreshes carried the same token: tabs   *)
(* that take turns never lose the session.                                 *)
ReuseMeansMishap == blamed # {} => mishap

(* A revoked session is never rotated, extended or revived, whatever was   *)
(* read before it was revoked.                                             *)
RevokedFinal == [][\A s \in Session : sess[s].revoked => sess'[s] = sess[s]]_vars
=============================================================================
