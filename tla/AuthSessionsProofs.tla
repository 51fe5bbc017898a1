------------------------- MODULE AuthSessionsProofs -------------------------
(***************************************************************************)
(* For any number of tabs, sessions, tokens and requests: the lockout      *)
(* holds, a code and a refresh token are used once, a logout that no       *)
(* refresh meets ends its session, a revoked session stays revoked, and    *)
(* nobody is blamed for the reuse of a token before a refresh lost its     *)
(* answer or shared its token.                                             *)
(***************************************************************************)
EXTENDS AuthSessions, TLAPS

Checking == {"login.check", "verify.check"}
Writing == {"refresh.rotate", "refresh.reuse", "logout.write", "revoke.write"}

(* A counter that locks nobody is below the limit. *)
Lawful(counter) == counter.until = 0 => counter.n < Limit

(* A tab whose handler holds the user row has read it as it is. *)
UserHeld ==
  /\ \A t \in Tab : at[t] = "login.check" => mem[t].counter = pw
  /\ \A t \in Tab : at[t] = "verify.check" =>
       mem[t].counter = mfa /\ mem[t].last = last /\ mem[t].codes = codes
  /\ \A t, u \in Tab : at[t] \in Checking /\ at[u] \in Checking => t = u

(* The wrong guesses are those that the row counts. *)
Counted == wrong.pw = pw.n /\ wrong.mfa = mfa.n /\ Lawful(pw) /\ Lawful(mfa)

(* A code that signed somebody in is no longer acceptable. *)
Spent == \A c \in Code : used[c] <= 1 /\ (used[c] # 0 => IF c \in Recovery THEN c \notin codes ELSE c <= last)

UserInv == UserHeld /\ Counted /\ Spent

(* Tokens are issued in order, and no two sessions share their current one. *)
Issued ==
  /\ \A s \in Session : s > sessions => sess[s] = NoRow
  /\ \A s \in Session : sess[s].cur <= tokens
  /\ \A r, s \in Session : sess[r].cur = sess[s].cur /\ sess[s].cur # 0 => r = s
  /\ jar.token <= tokens
  /\ \A t \in Tab : mem[t].token <= tokens /\ mem[t].reply.token <= tokens
  /\ \A t \in Tab : at[t] \in Writing => mem[t].row <= sessions

(* A token that was exchanged is the current token of no session. *)
Exchanged == \A k \in Token : rotated[k] <= 1 /\ (rotated[k] # 0 => k <= tokens /\ \A s \in Session : sess[s].cur # k)

(* What a tab knows of the row that its handler found. *)
RowHeld ==
  /\ \A t \in Tab : at[t] \in {"refresh.read", "refresh.rotate", "logout.read", "logout.write"}
                      => mem[t].token # 0
  /\ \A t \in Tab : at[t] = "refresh.rotate" =>
       sess[mem[t].row].cur = mem[t].token /\ ~sess[mem[t].row].revoked
  /\ \A t, u \in Tab : at[t] = "refresh.rotate" /\ at[u] = "refresh.rotate" /\ mem[t].row = mem[u].row => t = u
  /\ \A t \in Tab : at[t] = "logout.write" =>
       \A s \in Session : sess[s].cur = mem[t].token => s = mem[t].row

TokenInv == Issued /\ Exchanged /\ RowHeld

Inv == AuthTypeOK /\ UserInv /\ TokenInv

-----------------------------------------------------------------------------
(* Steps and their types *)

(* Time, counts and rows are numbers. *)
LEMMA Numbers == /\ Limit \in Nat /\ Limit > 0 /\ Window \in Nat /\ Window > 0 /\ Life \in Nat
                 /\ MaxSessions \in Nat /\ MaxTokens \in Nat /\ MaxTime \in Nat
                 /\ Time \subseteq Nat /\ Session \subseteq Nat /\ Token \subseteq Nat
                 /\ 0 \notin Session /\ 0 \notin Token /\ Time \cap Recovery = {} /\ 0 \in Time
BY AuthAssumption DEF Time, Session, Token

(* The memory of an idle tab, and that of a tab after a login, is typed. *)
LEMMA BlankType == /\ Blank \in Memory
                   /\ [Blank EXCEPT !.challenge = TRUE] \in Memory
                   /\ NoJar \in Cookie /\ Zero \in Counter /\ NoRow \in SessionRow
<1>1. NoJar \in Cookie /\ Zero \in Counter /\ NoRow \in SessionRow
  BY Numbers DEF NoJar, Zero, NoRow, Counter, Cookie, SessionRow
<1>2. 0 \in Code /\ -1 \in {-1} \cup Time /\ {} \in SUBSET Recovery  BY Numbers DEF Code
<1>3. Blank \in Memory  BY <1>1, <1>2 DEF Blank, Memory
<1>4. [Blank EXCEPT !.challenge = TRUE] \in Memory  BY <1>3 DEF Memory
<1> QED  BY <1>1, <1>3, <1>4

(* A tab that moves to a point and remembers something typed stays typed. *)
LEMMA Moved ==
  ASSUME AuthTypeOK, NEW t \in Tab, NEW p \in Point, NEW m \in Memory,
         Goto(t, p), Hold(t, m), p \in Writing => m.row \in Session
  PROVE  /\ at' \in [Tab -> Point] /\ mem' \in [Tab -> Memory]
         /\ at'[t] = p /\ mem'[t] = m
         /\ \A u \in Tab \ {t} : at'[u] = at[u] /\ mem'[u] = mem[u]
         /\ \A u \in Tab : at'[u] \in Writing => mem'[u].row \in Session
BY DEF AuthTypeOK, Goto, Hold, Writing

(* Counting a failure keeps the counter lawful, and counts a guess. *)
LEMMA FailedLaw ==
  ASSUME NEW c \in Counter, Lawful(c), ~Locked(c), now \in Time
  PROVE  /\ Failed(c) \in Counter /\ Lawful(Failed(c))
         /\ Failed(c).n = Guesses(c.n, c)
<1> DEFINE n == IF c.until # 0 /\ c.until <= now THEN 1 ELSE c.n + 1
<1>1. c.n \in 0..Limit /\ c.until \in 0..MaxTime + Window  BY DEF Counter
<1>2. n \in 0..Limit  BY <1>1, Numbers DEF Lawful, Locked
<1>3. now + Window \in 0..MaxTime + Window /\ now + Window # 0  BY Numbers DEF Time
<1>4. Failed(c) = [n |-> n, until |-> IF n >= Limit THEN now + Window ELSE 0]  BY DEF Failed
<1>5. Guesses(c.n, c) = n  BY DEF Guesses
<1> HIDE DEF n
<1> QED  BY <1>2, <1>3, <1>4, <1>5, Numbers DEF Counter, Lawful

-----------------------------------------------------------------------------
(* Steps that leave a part of the state alone *)

(* A time step is a number, and no recovery code. *)
LEMMA Steps == ASSUME NEW c \in Time PROVE c \in Int /\ c \notin Recovery
<1>1. c \in Nat /\ MaxTime \in Nat  BY Numbers
<1>2. c \in Int  BY <1>1
<1> QED  BY <1>2, AuthAssumption

(* The last step used is a number, -1 before the first. *)
LEMMA LastStep == ASSUME last \in {-1} \cup Time PROVE last \in Int
<1>1. CASE last = -1  BY <1>1
<1>2. CASE last \in Time  BY <1>2, Steps
<1> QED  BY <1>1, <1>2

(* A step of a tab that neither enters nor ends a check keeps what is known *)
(* of the user row.                                                        *)
LEMMA UserQuiet ==
  ASSUME UserInv, UNCHANGED <<account, wrong, used>>, NEW t \in Tab,
         \A u \in Tab \ {t} : at'[u] = at[u] /\ mem'[u] = mem[u],
         at'[t] \notin Checking
  PROVE  UserInv'
<1>1. UserHeld'  BY DEF UserInv, UserHeld, Checking, account
<1>2. Counted' /\ Spent'  BY DEF UserInv, Counted, Spent, Lawful, account
<1> QED  BY <1>1, <1>2 DEF UserInv

(* A step that changes no session row and holds none keeps what is known   *)
(* of the tokens.                                                          *)
LEMMA TokenQuiet ==
  ASSUME TokenInv, UNCHANGED <<sess, sessions, tokens, rotated>>, NEW t \in Tab,
         \A u \in Tab \ {t} : at'[u] = at[u] /\ mem'[u] = mem[u],
         at'[t] \notin {"refresh.rotate", "logout.write"},
         at'[t] \in {"refresh.read", "logout.read"} => mem'[t].token # 0,
         at'[t] \in Writing => mem'[t].row <= sessions,
         jar'.token <= tokens, mem'[t].token <= tokens, mem'[t].reply.token <= tokens
  PROVE  TokenInv'
<1>1. Issued'  BY DEF TokenInv, Issued
<1>2. Exchanged'  BY DEF TokenInv, Exchanged
<1>3. RowHeld'  BY DEF TokenInv, RowHeld
<1> QED  BY <1>1, <1>2, <1>3 DEF TokenInv

(* So a step of one tab that writes no user row, no session row and takes  *)
(* no lock keeps the whole invariant.                                      *)
LEMMA QuietStep ==
  ASSUME Inv, NEW t \in Tab, NEW p \in Point \ (Checking \cup {"refresh.rotate", "logout.write"}),
         NEW m \in Memory, Goto(t, p), Hold(t, m),
         p \in Writing => m.row \in Session /\ m.row <= sessions,
         p \in {"refresh.read", "logout.read"} => m.token # 0,
         m.token <= tokens, m.reply.token <= tokens,
         UNCHANGED <<now, account, enabled, rows, wrong, used, rotated, signedOut, blamed>>,
         jar' \in Cookie, jar'.token <= tokens, requests' \in Nat, fails' \in Nat, mishap' \in BOOLEAN,
         astray' \subseteq {0} \cup Session
  PROVE  Inv'
<1>1. AuthTypeOK /\ UserInv /\ TokenInv  BY DEF Inv
<1>2. /\ at' \in [Tab -> Point] /\ mem' \in [Tab -> Memory]
      /\ at'[t] = p /\ mem'[t] = m
      /\ \A u \in Tab \ {t} : at'[u] = at[u] /\ mem'[u] = mem[u]
      /\ \A u \in Tab : at'[u] \in Writing => mem'[u].row \in Session
  BY <1>1, Moved
<1>3. AuthTypeOK'  BY <1>1, <1>2 DEF AuthTypeOK, Writing, account, rows
<1>4. UserInv'  BY <1>1, <1>2, UserQuiet DEF account
<1>5. TokenInv'  BY <1>1, <1>2, TokenQuiet DEF rows
<1> QED  BY <1>3, <1>4, <1>5 DEF Inv

(* A tab that forgets everything it held is such a step. *)
LEMMA BlankStep ==
  ASSUME Inv, NEW t \in Tab, NEW p \in Point \ (Checking \cup Writing \cup {"refresh.read", "logout.read"}),
         NEW m \in {Blank, [Blank EXCEPT !.challenge = TRUE]}, Goto(t, p), Hold(t, m),
         UNCHANGED <<now, account, enabled, rows, wrong, used, rotated, signedOut, blamed>>,
         jar' \in Cookie, jar'.token <= tokens, requests' \in Nat, fails' \in Nat, mishap' \in BOOLEAN,
         astray' \subseteq {0} \cup Session
  PROVE  Inv'
<1>1. m \in Memory  BY BlankType
<1>2. m.token = 0 /\ m.reply = NoJar  BY DEF Blank
<1>3. 0 <= tokens  BY Numbers DEF Inv, AuthTypeOK
<1> QED  BY <1>1, <1>2, <1>3, QuietStep DEF NoJar, Writing

(* The cookies that the browser has are issued ones. *)
LEMMA JarIssued ==
  Inv => /\ jar \in Cookie /\ jar.token <= tokens
         /\ requests \in Nat /\ requests + 1 \in Nat /\ fails \in Nat
         /\ astray \subseteq {0} \cup Session
BY DEF Inv, AuthTypeOK, TokenInv, Issued

-----------------------------------------------------------------------------
(* The sign-in *)

(* Requests that are begun, and a challenge that is left. *)
LEMMA Begun ==
  ASSUME Inv, NEW t \in Tab,
         (\E right \in BOOLEAN : Login(t, right)) \/ (\E code \in Code : Verify(t, code)) \/ Abandon(t)
  PROVE  Inv'
<1>1. CASE \E right \in BOOLEAN : Login(t, right)
  <2>1. PICK right \in BOOLEAN : Login(t, right)  BY <1>1
  <2> DEFINE m == [Blank EXCEPT !.right = right]
  <2>2. m \in Memory  BY BlankType DEF Memory
  <2>3. m.token = 0 /\ m.reply = NoJar  BY DEF Blank
  <2>4. Goto(t, "login.read") /\ Hold(t, m)  BY <2>1 DEF Login
  <2> HIDE DEF m
  <2>5. 0 <= tokens  BY Numbers DEF Inv, AuthTypeOK
  <2>6. UNCHANGED <<now, account, enabled, rows, jar, fails, history>> /\ requests' = requests + 1
    BY <2>1 DEF Login
  <2>7. mishap \in BOOLEAN  BY DEF Inv, AuthTypeOK
  <2> QED
    BY <2>2, <2>3, <2>4, <2>5, <2>6, <2>7, QuietStep, JarIssued DEF Point, Checking, Writing, history, NoJar
<1>2. CASE \E code \in Code : Verify(t, code)
  <2>1. PICK code \in Code : Verify(t, code)  BY <1>2
  <2> DEFINE m == [Blank EXCEPT !.challenge = TRUE, !.code = code]
  <2>2. m \in Memory  BY BlankType DEF Memory
  <2>3. m.token = 0 /\ m.reply = NoJar  BY DEF Blank
  <2>4. Goto(t, "verify.read") /\ Hold(t, m)  BY <2>1 DEF Verify
  <2> HIDE DEF m
  <2>5. 0 <= tokens  BY Numbers DEF Inv, AuthTypeOK
  <2>6. UNCHANGED <<now, account, enabled, rows, jar, fails, history>> /\ requests' = requests + 1
    BY <2>1 DEF Verify
  <2>7. mishap \in BOOLEAN  BY DEF Inv, AuthTypeOK
  <2> QED
    BY <2>2, <2>3, <2>4, <2>5, <2>6, <2>7, QuietStep, JarIssued DEF Point, Checking, Writing, history, NoJar
<1>3. CASE Abandon(t)
  <2>1. mishap \in BOOLEAN  BY DEF Inv, AuthTypeOK
  <2> QED
    BY <1>3, <2>1, BlankStep, JarIssued DEF Abandon, Finish, Point, Checking, Writing, history
<1> QED  BY <1>1, <1>2, <1>3

(* The reads that lock the user row. *)
LEMMA UserRead ==
  ASSUME Inv, NEW t \in Tab, LoginRead(t) \/ VerifyRead(t)
  PROVE  Inv'
<1> DEFINE p == IF LoginRead(t) THEN "login.check" ELSE "verify.check"
           m == IF LoginRead(t) THEN [mem[t] EXCEPT !.counter = pw]
                ELSE [mem[t] EXCEPT !.counter = mfa, !.last = last, !.codes = codes]
<1>1. mem[t] \in Memory /\ pw \in Counter /\ mfa \in Counter
  BY DEF Inv, AuthTypeOK
<1>2. last \in {-1} \cup Time /\ codes \in SUBSET Recovery  BY DEF Inv, AuthTypeOK
<1>3. m \in Memory /\ m.token = mem[t].token /\ m.reply = mem[t].reply  BY <1>1, <1>2 DEF Memory
<1>4. /\ p \in Checking
      /\ p = "login.check" => m.counter = pw
      /\ p = "verify.check" => m.counter = mfa /\ m.last = last /\ m.codes = codes
  BY <1>1 DEF Memory, Checking
<1>5. Goto(t, p) /\ Hold(t, m) /\ UserFree(t)  BY DEF LoginRead, VerifyRead
<1>6. UNCHANGED <<now, enabled, rows, jar, fails, history, account, requests>>
  BY DEF LoginRead, VerifyRead
<1> HIDE DEF m, p
<1>7. p \in Point /\ p \notin Writing  BY <1>4 DEF Point, Checking, Writing
<1>8. /\ at' \in [Tab -> Point] /\ mem' \in [Tab -> Memory]
      /\ at'[t] = p /\ mem'[t] = m
      /\ \A u \in Tab \ {t} : at'[u] = at[u] /\ mem'[u] = mem[u]
      /\ \A u \in Tab : at'[u] \in Writing => mem'[u].row \in Session
  BY <1>3, <1>5, <1>7, Moved DEF Inv
<1>9. AuthTypeOK'  BY <1>6, <1>8 DEF Inv, AuthTypeOK, Writing, account, rows, history
<1>10. UserHeld'
  BY <1>4, <1>5, <1>6, <1>8 DEF Inv, UserInv, UserHeld, UserFree, Checking, account
<1>11. Counted' /\ Spent'  BY <1>6 DEF Inv, UserInv, Counted, Spent, Lawful, account, history
<1>12. TokenInv'
  BY <1>3, <1>4, <1>6, <1>7, <1>8, TokenQuiet DEF Inv, TokenInv, Issued, Checking, rows, history
<1> QED  BY <1>9, <1>10, <1>11, <1>12 DEF Inv, UserInv

(* The end of a check: nobody else holds the user row. *)
LEMMA Checked ==
  ASSUME Inv, NEW t \in Tab, at[t] \in Checking, NEW p \in {"idle", "challenged", "issue"},
         NEW m \in {Blank, [Blank EXCEPT !.challenge = TRUE]}, Goto(t, p), Hold(t, m),
         UNCHANGED <<now, requests, enabled, rows, jar, fails, rotated, signedOut, blamed, mishap, astray>>,
         pw' \in Counter, mfa' \in Counter, last' \in {-1} \cup Time, codes' \subseteq Recovery,
         wrong' \in [pw : Nat, mfa : Nat], used' \in [Code -> Nat], Counted', Spent'
  PROVE  Inv'
<1>1. /\ m \in Memory /\ m.token = 0 /\ m.reply.token = 0
      /\ p \in Point /\ p \notin Checking /\ p \notin Writing
  <2>1. m \in Memory  BY BlankType
  <2>2. m.token = 0 /\ m.reply.token = 0  BY DEF Blank, NoJar
  <2>3. p \in Point /\ p \notin Checking /\ p \notin Writing  BY DEF Point, Checking, Writing
  <2> QED  BY <2>1, <2>2, <2>3
<1>2. p \notin {"refresh.read", "logout.read", "refresh.rotate", "logout.write"}  OBVIOUS
<1>3. /\ at' \in [Tab -> Point] /\ mem' \in [Tab -> Memory]
      /\ at'[t] = p /\ mem'[t] = m
      /\ \A u \in Tab \ {t} : at'[u] = at[u] /\ mem'[u] = mem[u]
      /\ \A u \in Tab : at'[u] \in Writing => mem'[u].row \in Session
  BY <1>1, Moved DEF Inv
<1>4. AuthTypeOK'  BY <1>3 DEF Inv, AuthTypeOK, Writing, rows
<1>5. UserHeld'  BY <1>1, <1>3 DEF Inv, UserInv, UserHeld, Checking
<1>6. TokenInv'
  BY <1>1, <1>2, <1>3, TokenQuiet, Numbers DEF Inv, AuthTypeOK, TokenInv, Issued, rows
<1> QED  BY <1>4, <1>5, <1>6 DEF Inv, UserInv

(* The types of what a check may write. *)
LEMMA UserType ==
  Inv => /\ now \in Time /\ pw \in Counter /\ mfa \in Counter /\ last \in {-1} \cup Time
         /\ codes \subseteq Recovery /\ wrong \in [pw : Nat, mfa : Nat] /\ used \in [Code -> Nat]
         /\ Counted /\ Spent
BY DEF Inv, AuthTypeOK, UserInv

(* A wrong password or a locked account, *)
LEMMA LoginRefusedStep == ASSUME Inv, NEW t \in Tab, LoginRefused(t) PROVE Inv'
<1>1. mem[t].counter = pw /\ at[t] \in Checking
  BY DEF LoginRefused, Inv, UserInv, UserHeld, Checking
<1>2. Spent'  BY UserType DEF LoginRefused, Spent
<1>3. pw' \in Counter /\ wrong' \in [pw : Nat, mfa : Nat] /\ Counted'
  <2>1. CASE UNCHANGED <<pw, wrong>>  BY <2>1, UserType DEF LoginRefused, Counted, Lawful
  <2>2. CASE ~Locked(pw) /\ pw' = Failed(pw) /\ wrong' = [wrong EXCEPT !.pw = Guesses(@, pw)]
    <3>1. pw' \in Counter /\ Lawful(pw') /\ pw'.n = Guesses(pw.n, pw)
      BY <2>2, UserType, FailedLaw DEF Counted
    <3>2. wrong.pw = pw.n /\ wrong.mfa = mfa.n /\ Lawful(mfa) /\ mfa' = mfa
      BY UserType DEF Counted, LoginRefused
    <3>3. pw'.n \in Nat  BY <3>1, Numbers DEF Counter
    <3>4. wrong' = [wrong EXCEPT !.pw = pw'.n]  BY <2>2, <3>1, <3>2
    <3>5. wrong' \in [pw : Nat, mfa : Nat] /\ wrong'.pw = pw'.n /\ wrong'.mfa = wrong.mfa
      BY <3>3, <3>4, UserType
    <3>6. Lawful(pw)' /\ Lawful(mfa)'  BY <3>1, <3>2 DEF Lawful
    <3> QED  BY <3>1, <3>2, <3>5, <3>6 DEF Counted
  <2> QED  BY <1>1, <2>1, <2>2 DEF LoginRefused
<1>4. /\ UNCHANGED <<now, requests, enabled, rows, jar, fails, rotated, signedOut, blamed, mishap, astray>>
      /\ UNCHANGED <<mfa, last, codes, used>> /\ Goto(t, "idle") /\ Hold(t, Blank)
  BY DEF LoginRefused, Finish
<1> QED  BY <1>1, <1>2, <1>3, <1>4, UserType, Checked

(* the right one, *)
LEMMA LoginAcceptedStep == ASSUME Inv, NEW t \in Tab, LoginAccepted(t) PROVE Inv'
<1>1. at[t] \in Checking  BY DEF LoginAccepted, Checking
<1>2. Spent'  BY UserType DEF LoginAccepted, Spent
<1>3. pw' \in Counter /\ wrong' \in [pw : Nat, mfa : Nat] /\ Counted'
  <2>1. pw' = Zero /\ wrong' = [wrong EXCEPT !.pw = 0] /\ mfa' = mfa  BY DEF LoginAccepted
  <2> QED  BY <2>1, UserType, BlankType, Numbers DEF Counted, Lawful, Zero
<1>4. /\ UNCHANGED <<now, requests, enabled, rows, jar, fails, rotated, signedOut, blamed, mishap, astray>>
      /\ UNCHANGED <<mfa, last, codes, used>>
  BY DEF LoginAccepted
<1>5. \/ Goto(t, "challenged") /\ Hold(t, [Blank EXCEPT !.challenge = TRUE])
      \/ Goto(t, "issue") /\ Hold(t, Blank)
  BY DEF LoginAccepted
<1> QED  BY <1>1, <1>2, <1>3, <1>4, <1>5, UserType, Checked

(* a wrong or spent code, *)
LEMMA VerifyRefusedStep == ASSUME Inv, NEW t \in Tab, VerifyRefused(t) PROVE Inv'
<1>1. mem[t].counter = mfa /\ at[t] \in Checking
  BY DEF VerifyRefused, Inv, UserInv, UserHeld, Checking
<1>2. Spent'  BY UserType DEF VerifyRefused, Spent
<1>3. mfa' \in Counter /\ wrong' \in [pw : Nat, mfa : Nat] /\ Counted'
  <2>1. CASE UNCHANGED <<mfa, wrong>>  BY <2>1, UserType DEF VerifyRefused, Counted, Lawful
  <2>2. CASE ~Locked(mfa) /\ mfa' = Failed(mfa) /\ wrong' = [wrong EXCEPT !.mfa = Guesses(@, mfa)]
    <3>1. mfa' \in Counter /\ Lawful(mfa') /\ mfa'.n = Guesses(mfa.n, mfa)
      BY <2>2, UserType, FailedLaw DEF Counted
    <3>2. wrong.pw = pw.n /\ wrong.mfa = mfa.n /\ Lawful(pw) /\ pw' = pw
      BY UserType DEF Counted, VerifyRefused
    <3>3. mfa'.n \in Nat  BY <3>1, Numbers DEF Counter
    <3>4. wrong' = [wrong EXCEPT !.mfa = mfa'.n]  BY <2>2, <3>1, <3>2
    <3>5. wrong' \in [pw : Nat, mfa : Nat] /\ wrong'.mfa = mfa'.n /\ wrong'.pw = wrong.pw
      BY <3>3, <3>4, UserType
    <3>6. Lawful(pw)' /\ Lawful(mfa)'  BY <3>1, <3>2 DEF Lawful
    <3> QED  BY <3>1, <3>2, <3>5, <3>6 DEF Counted
  <2> QED  BY <1>1, <2>1, <2>2 DEF VerifyRefused
<1>4. /\ UNCHANGED <<now, requests, enabled, rows, jar, fails, rotated, signedOut, blamed, mishap, astray>>
      /\ UNCHANGED <<pw, last, codes, used>>
      /\ Goto(t, "challenged") /\ Hold(t, [Blank EXCEPT !.challenge = TRUE])
  BY DEF VerifyRefused
<1> QED  BY <1>1, <1>2, <1>3, <1>4, UserType, Checked

(* and a code that is good, which no earlier sign-in has used. *)
LEMMA VerifyAcceptedStep == ASSUME Inv, NEW t \in Tab, VerifyAccepted(t) PROVE Inv'
<1> DEFINE c == mem[t].code
<1>1. /\ at[t] \in Checking /\ mem[t].last = last /\ mem[t].codes = codes
  BY DEF VerifyAccepted, Inv, UserInv, UserHeld, Checking
<1>2. c \in Code /\ mem[t] \in Memory  BY DEF Inv, AuthTypeOK, Memory
<1>3. Recovery \cap Int = {} /\ Code = Time \cup Recovery  BY AuthAssumption DEF Code
<1>4. \/ c \in Time /\ c > last /\ last' = c /\ codes' = codes
      \/ c \in Recovery /\ c \in codes /\ codes' = codes \ {c} /\ last' = last
  <2>1. CASE NewStep(c, mem[t])
    <3>1. c \in Int /\ c > last  BY <1>1, <2>1 DEF NewStep
    <3> QED  BY <1>2, <1>3, <2>1, <3>1 DEF VerifyAccepted
  <2>2. CASE ~NewStep(c, mem[t])
    <3>1. c \in codes /\ codes' = codes \ {c} /\ last' = last
      BY <1>1, <2>2 DEF VerifyAccepted, Consumable
    <3> QED  BY <3>1, UserType
  <2> QED  BY <2>1, <2>2
<1>5. used' = [used EXCEPT ![c] = @ + 1]  BY DEF VerifyAccepted
<1>6. used[c] = 0
  <2>1. used[c] \in Nat /\ used[c] <= 1 /\ (used[c] # 0 => IF c \in Recovery THEN c \notin codes ELSE c <= last)
    BY <1>2, UserType DEF Spent
  <2>2. c \in Time => c \notin Recovery /\ c \in Int  BY Steps
  <2>3. last \in Int  BY UserType, LastStep
  <2> QED  BY <1>4, <2>1, <2>2, <2>3
<1>7. last' \in {-1} \cup Time /\ codes' \subseteq Recovery  BY <1>4, UserType
<1>8. used' \in [Code -> Nat] /\ used'[c] = 1 /\ \A d \in Code \ {c} : used'[d] = used[d]
  BY <1>2, <1>5, <1>6, UserType
<1>9. Spent'
  <2> SUFFICES ASSUME NEW d \in Code
               PROVE  used'[d] <= 1 /\ (used'[d] # 0 => IF d \in Recovery THEN d \notin codes' ELSE d <= last')
    BY DEF Spent
  <2>1. used[d] <= 1 /\ (used[d] # 0 => IF d \in Recovery THEN d \notin codes ELSE d <= last)
    BY UserType DEF Spent
  <2>2. (d \in Recovery => d \notin Time) /\ (d \notin Recovery => d \in Time /\ d \in Int)
    BY <1>3, Steps
  <2>6. last \in Int  BY UserType, LastStep
  <2>3. c \in Time => c \in Int /\ c \notin Recovery  BY Steps
  <2>4. CASE d = c  BY <1>4, <1>8, <2>2, <2>3, <2>4
  <2>5. CASE d # c  BY <1>4, <1>8, <2>1, <2>2, <2>3, <2>5, <2>6
  <2> QED  BY <2>4, <2>5
<1>10. mfa' \in Counter /\ wrong' \in [pw : Nat, mfa : Nat] /\ Counted'
  <2>1. mfa' = Zero /\ wrong' = [wrong EXCEPT !.mfa = 0] /\ pw' = pw  BY DEF VerifyAccepted
  <2> QED  BY <2>1, UserType, BlankType, Numbers DEF Counted, Lawful, Zero
<1>11. /\ UNCHANGED <<now, requests, enabled, rows, jar, fails, rotated, signedOut, blamed, mishap, astray>>
       /\ UNCHANGED pw /\ Goto(t, "issue") /\ Hold(t, Blank)
  BY DEF VerifyAccepted
<1> QED  BY <1>1, <1>7, <1>8, <1>9, <1>10, <1>11, UserType, Checked

-----------------------------------------------------------------------------
(* Sessions and their tokens *)

(* What the tabs and the rows hold, typed. *)
LEMMA TokenType ==
  ASSUME Inv, NEW t \in Tab
  PROVE  /\ mem[t] \in Memory /\ mem[t].token \in {0} \cup Token /\ mem[t].reply \in Cookie
         /\ mem[t].token <= tokens /\ mem[t].reply.token <= tokens
         /\ at[t] \in Writing => mem[t].row \in Session
         /\ tokens \in {0} \cup Token /\ sessions \in {0} \cup Session
         /\ tokens \in Nat /\ sessions \in Nat /\ now \in Time
         /\ sess \in [Session -> SessionRow] /\ mishap \in BOOLEAN
         /\ signedOut \subseteq {0} \cup Session /\ blamed \subseteq Session
         /\ rotated \in [Token -> Nat] /\ \A s \in Session : sess[s].cur \in Nat
<1>1. mem[t] \in Memory  BY DEF Inv, AuthTypeOK
<1>2. mem[t].token \in {0} \cup Token /\ mem[t].reply \in Cookie  BY <1>1 DEF Memory
<1>3. tokens \in {0} \cup Token /\ sessions \in {0} \cup Session  BY DEF Inv, AuthTypeOK
<1>4. tokens \in Nat /\ sessions \in Nat  BY <1>3, Numbers
<1>5. sess \in [Session -> SessionRow]  BY DEF Inv, AuthTypeOK
<1>6. \A s \in Session : sess[s].cur \in Nat
  <2> TAKE s \in Session
  <2>1. sess[s].cur \in {0} \cup Token  BY <1>5 DEF SessionRow
  <2> QED  BY <2>1, Numbers
<1>7. mem[t].token <= tokens /\ mem[t].reply.token <= tokens  BY DEF Inv, TokenInv, Issued
<1>8. at[t] \in Writing => mem[t].row \in Session  BY DEF Inv, AuthTypeOK, Writing
<1>9. /\ now \in Time /\ mishap \in BOOLEAN /\ signedOut \subseteq {0} \cup Session
      /\ blamed \subseteq Session /\ rotated \in [Token -> Nat]
  BY DEF Inv, AuthTypeOK
<1> QED  BY <1>1, <1>2, <1>3, <1>4, <1>5, <1>6, <1>7, <1>8, <1>9

(* The cookies of an answer are typed. *)
LEMMA CookiesType == ASSUME NEW s \in Session, NEW k \in Token, now \in Time
                     PROVE Cookies(s, k) \in Cookie /\ Cookies(s, k).token = k
<1>1. now + 1 \in 0..MaxTime + 1  BY Numbers DEF Time
<1> QED  BY <1>1 DEF Cookies, Cookie

(* A step that writes session rows leaves the user row alone. *)
LEMMA RowsType ==
  ASSUME Inv, NEW t \in Tab, NEW p \in Point \ Checking, NEW m \in Memory, Goto(t, p), Hold(t, m),
         p \in Writing => m.row \in Session,
         UNCHANGED <<now, requests, account, enabled, jar, fails, wrong, used, mishap, astray>>,
         sess' \in [Session -> SessionRow], sessions' \in {0} \cup Session, tokens' \in {0} \cup Token,
         rotated' \in [Token -> Nat], signedOut' \subseteq {0} \cup Session, blamed' \subseteq Session
  PROVE  /\ AuthTypeOK' /\ UserInv'
         /\ at'[t] = p /\ mem'[t] = m
         /\ \A u \in Tab \ {t} : at'[u] = at[u] /\ mem'[u] = mem[u]
<1>1. /\ at' \in [Tab -> Point] /\ mem' \in [Tab -> Memory]
      /\ at'[t] = p /\ mem'[t] = m
      /\ \A u \in Tab \ {t} : at'[u] = at[u] /\ mem'[u] = mem[u]
      /\ \A u \in Tab : at'[u] \in Writing => mem'[u].row \in Session
  BY Moved DEF Inv
<1>2. AuthTypeOK'  BY <1>1 DEF Inv, AuthTypeOK, Writing, account
<1>3. UserInv'  BY <1>1, UserQuiet DEF Inv, account
<1> QED  BY <1>1, <1>2, <1>3

(* A new session has a new token. *)
LEMMA IssueStep == ASSUME Inv, NEW t \in Tab, Issue(t) PROVE Inv'
<1> DEFINE s == sessions + 1
           k == tokens + 1
           row == [cur |-> k, prev |-> 0, revoked |-> FALSE, expires |-> now + Life]
           m == [Blank EXCEPT !.reply = Cookies(s, k)]
<1>1. /\ s \in Session /\ k \in Token /\ s > sessions /\ k > tokens /\ k \in Nat
  BY TokenType DEF Issue
<1>2. row \in SessionRow /\ row.cur = k
  <2>1. now + Life \in 0..MaxTime + Life  BY TokenType, Numbers DEF Time
  <2> QED  BY <1>1, <2>1 DEF SessionRow
<1>3. Cookies(s, k) \in Cookie /\ Cookies(s, k).token = k  BY <1>1, CookiesType, TokenType
<1>4. m \in Memory /\ m.token = 0 /\ m.reply.token = k
  <2>1. m \in Memory  BY <1>3, BlankType DEF Memory
  <2>2. m.token = 0 /\ m.reply = Cookies(s, k)  BY DEF Blank
  <2> QED  BY <1>3, <2>1, <2>2
<1>5. /\ sess' = [sess EXCEPT ![s] = row] /\ sessions' = s /\ tokens' = k
      /\ Goto(t, "reply") /\ Hold(t, m)
      /\ UNCHANGED <<now, requests, account, enabled, jar, fails, history>>
  BY DEF Issue
<1>6. sess[s] = NoRow  BY <1>1 DEF Inv, TokenInv, Issued
<1> HIDE DEF s, k, row, m
<1>7. sess' \in [Session -> SessionRow] /\ sess'[s] = row /\ \A r \in Session \ {s} : sess'[r] = sess[r]
  BY <1>1, <1>2, <1>5, TokenType
<1>8. /\ AuthTypeOK' /\ UserInv' /\ at'[t] = "reply" /\ mem'[t] = m
      /\ \A u \in Tab \ {t} : at'[u] = at[u] /\ mem'[u] = mem[u]
  <2>1. "reply" \in Point \ Checking /\ "reply" \notin Writing  BY DEF Point, Checking, Writing
  <2>2. UNCHANGED <<wrong, used, rotated, signedOut, blamed, mishap, astray>>  BY <1>5 DEF history
  <2> QED  BY <1>1, <1>4, <1>5, <1>7, <2>1, <2>2, RowsType, TokenType
<1>9. TokenInv'
  <2>1. \A r \in Session : sess[r].cur <= tokens /\ sess[r].cur \in Nat
    BY TokenType DEF Inv, TokenInv, Issued
  <2>2. UNCHANGED <<jar, rotated, signedOut>>  BY <1>5 DEF history
  <2>3. tokens \in Nat /\ sessions \in Nat /\ Session \subseteq Nat /\ s = sessions + 1 /\ k = tokens + 1
    BY TokenType, Numbers DEF s, k
  <2>4. Issued'
    <3>1. ASSUME NEW r \in Session, r > s PROVE sess'[r] = NoRow
      <4>1. r \in Nat /\ r # s /\ r > sessions  BY <2>3, <3>1
      <4>2. sess[r] = NoRow  BY <4>1 DEF Inv, TokenInv, Issued
      <4> QED  BY <1>7, <4>1, <4>2
    <3>2. ASSUME NEW r \in Session PROVE sess'[r].cur <= k
      <4>1. sess[r].cur <= k /\ k <= k  BY <2>1, <2>3
      <4> QED  BY <1>2, <1>7, <4>1
    <3>3. ASSUME NEW q \in Session, NEW r \in Session, sess'[q].cur = sess'[r].cur, sess'[q].cur # 0
          PROVE  q = r
      <4>1. sess[q].cur # k /\ sess[r].cur # k  BY <2>1, <2>3
      <4>2. CASE q = s  BY <1>2, <1>7, <3>3, <4>1, <4>2
      <4>3. CASE r = s  BY <1>2, <1>7, <3>3, <4>1, <4>3
      <4>4. CASE q # s /\ r # s  BY <1>7, <3>3, <4>4 DEF Inv, TokenInv, Issued
      <4> QED  BY <4>2, <4>3, <4>4
    <3>4. jar.token \in Nat /\ jar.token <= tokens
      <4>1. jar.token \in {0} \cup Token  BY DEF Inv, AuthTypeOK, Cookie
      <4> QED  BY <4>1, Numbers DEF Inv, TokenInv, Issued
    <3>5. \A u \in Tab : mem'[u].token <= k /\ mem'[u].reply.token <= k
      <4> TAKE u \in Tab
      <4>1. mem[u].token \in Nat /\ mem[u].reply.token \in Nat
        BY TokenType, Numbers DEF Cookie
      <4>2. mem[u].token <= tokens /\ mem[u].reply.token <= tokens  BY TokenType
      <4>3. mem[u].token <= k /\ mem[u].reply.token <= k /\ 0 <= k /\ k <= k  BY <2>3, <4>1, <4>2
      <4> QED  BY <1>4, <1>8, <4>3
    <3>7. ASSUME NEW u \in Tab, at'[u] \in Writing PROVE mem'[u].row <= s
      <4>1. u # t  BY <1>8, <3>7 DEF Writing
      <4>2. mem[u].row <= sessions /\ mem[u].row \in Session
        BY <1>8, <3>7, <4>1, TokenType DEF Inv, TokenInv, Issued
      <4>4. mem[u].row \in Nat  BY <4>2, Numbers
      <4>3. mem[u].row <= s  BY <2>3, <4>2, <4>4
      <4> QED  BY <1>8, <4>1, <4>3
    <3> QED  BY <1>5, <2>2, <2>3, <3>1, <3>2, <3>3, <3>4, <3>5, <3>7 DEF Issued
  <2>5. Exchanged'
    <3> SUFFICES ASSUME NEW j \in Token
                 PROVE  rotated[j] <= 1 /\ (rotated[j] # 0 => j <= k /\ \A r \in Session : sess'[r].cur # j)
      BY <1>5, <2>2 DEF Exchanged
    <3>1. rotated[j] <= 1 /\ (rotated[j] # 0 => j <= tokens /\ \A r \in Session : sess[r].cur # j)
      BY DEF Inv, TokenInv, Exchanged
    <3>2. j \in Nat  BY Numbers
    <3> QED  BY <1>2, <1>7, <2>3, <3>1, <3>2
  <2>6. RowHeld'
    <3>1. \A u \in Tab : at'[u] \in {"refresh.read", "refresh.rotate", "logout.read", "logout.write"}
            => u # t /\ mem[u].token # 0
      BY <1>8 DEF Inv, TokenInv, RowHeld
    <3>2. \A u \in Tab \ {t} : at[u] = "refresh.rotate" =>
            mem[u].row # s /\ sess'[mem[u].row].cur = mem[u].token /\ ~sess'[mem[u].row].revoked
      <4> TAKE u \in Tab \ {t}
      <4> HAVE at[u] = "refresh.rotate"
      <4>1. mem[u].row \in Session  BY TokenType DEF Writing
      <4>2. sess[mem[u].row].cur = mem[u].token /\ ~sess[mem[u].row].revoked /\ mem[u].token # 0
        BY DEF Inv, TokenInv, RowHeld
      <4>3. NoRow.cur = 0  BY DEF NoRow
      <4> QED  BY <1>6, <1>7, <4>1, <4>2, <4>3
    <3>3. \A u \in Tab \ {t} : at[u] = "logout.write" =>
            \A r \in Session : sess'[r].cur = mem[u].token => r = mem[u].row
      <4> TAKE u \in Tab \ {t}
      <4> HAVE at[u] = "logout.write"
      <4> TAKE r \in Session
      <4> HAVE sess'[r].cur = mem[u].token
      <4>1. mem[u].token <= tokens /\ mem[u].token \in Nat  BY TokenType, Numbers
      <4>2. r # s  BY <1>2, <1>7, <2>3, <4>1
      <4> QED  BY <1>7, <4>2 DEF Inv, TokenInv, RowHeld
    <3> QED  BY <1>8, <3>1, <3>2, <3>3 DEF Inv, TokenInv, RowHeld
  <2> QED  BY <2>4, <2>5, <2>6 DEF TokenInv
<1> QED  BY <1>8, <1>9 DEF Inv

(* A rotation replaces the token that the tab carried. *)
LEMMA RotateStep == ASSUME Inv, NEW t \in Tab, RefreshRotate(t) PROVE Inv'
<1> DEFINE s == mem[t].row
           j == mem[t].token
           k == tokens + 1
           row == Rotated(sess[s], k)
           m == [mem[t] EXCEPT !.reply = Cookies(s, k)]
<1>1. /\ at[t] = "refresh.rotate" /\ k \in Token /\ k > tokens /\ k \in Nat /\ s \in Session
  BY TokenType DEF RefreshRotate, Writing
<1>2. /\ sess[s].cur = j /\ ~sess[s].revoked /\ j # 0 /\ j \in Token /\ j <= tokens /\ j \in Nat
  BY <1>1, TokenType, Numbers DEF Inv, TokenInv, RowHeld
<1>3. row \in SessionRow /\ row.cur = k /\ row.revoked = sess[s].revoked
  <2>1. sess[s] \in SessionRow  BY <1>1, TokenType
  <2> QED  BY <1>1, <2>1 DEF SessionRow, Rotated
<1>4. Cookies(s, k) \in Cookie /\ Cookies(s, k).token = k  BY <1>1, CookiesType, TokenType
<1>5. m \in Memory /\ m.token = j /\ m.reply.token = k  BY <1>4, TokenType DEF Memory
<1>6. /\ sess' = [sess EXCEPT ![s] = row] /\ tokens' = k
      /\ rotated' = [rotated EXCEPT ![j] = @ + 1]
      /\ Goto(t, "refresh.reply") /\ Hold(t, m)
      /\ UNCHANGED <<now, requests, account, enabled, sessions, jar, fails, wrong, used, signedOut, blamed, mishap, astray>>
  BY DEF RefreshRotate
<1>7. rotated[j] = 0
  <2>1. rotated[j] # 0 => \A r \in Session : sess[r].cur # j  BY <1>2 DEF Inv, TokenInv, Exchanged
  <2> QED  BY <1>1, <1>2, <2>1
<1>0. \A u \in Tab \ {t} : at[u] = "refresh.rotate" => mem[u].row # s
  BY <1>1 DEF Inv, TokenInv, RowHeld
<1> HIDE DEF s, j, row, m
<1>8. sess' \in [Session -> SessionRow] /\ sess'[s] = row /\ \A r \in Session \ {s} : sess'[r] = sess[r]
  BY <1>1, <1>3, <1>6, TokenType
<1>9. rotated' \in [Token -> Nat] /\ rotated'[j] = 1 /\ \A i \in Token \ {j} : rotated'[i] = rotated[i]
  BY <1>2, <1>6, <1>7, TokenType
<1>10. /\ AuthTypeOK' /\ UserInv' /\ at'[t] = "refresh.reply" /\ mem'[t] = m
       /\ \A u \in Tab \ {t} : at'[u] = at[u] /\ mem'[u] = mem[u]
  <2>1. "refresh.reply" \in Point \ Checking /\ "refresh.reply" \notin Writing  BY DEF Point, Checking, Writing
  <2>2. signedOut' \subseteq {0} \cup Session /\ blamed' \subseteq Session /\ sessions' \in {0} \cup Session
        /\ tokens' \in {0} \cup Token
    BY <1>1, <1>6, TokenType
  <2> QED  BY <1>5, <1>6, <1>8, <1>9, <2>1, <2>2, RowsType
<1>11. TokenInv'
  <2>1. \A r \in Session : sess[r].cur <= tokens /\ sess[r].cur \in Nat
    BY TokenType DEF Inv, TokenInv, Issued
  <2>2. tokens \in Nat /\ k \in Nat /\ k = tokens + 1  BY TokenType DEF k
  <2> HIDE DEF k
  <2>3. \A r \in Session : r # s => sess[r].cur # j
    BY <1>1, <1>2 DEF Inv, TokenInv, Issued
  <2>4. Issued'
    <3>1. ASSUME NEW r \in Session, r > sessions PROVE sess'[r] = NoRow
      <4>1. sess[r] = NoRow  BY <3>1 DEF Inv, TokenInv, Issued
      <4>2. r # s  BY <1>2, <4>1 DEF NoRow
      <4> QED  BY <1>8, <4>1, <4>2
    <3>2. ASSUME NEW r \in Session PROVE sess'[r].cur <= k
      <4>1. sess[r].cur <= k /\ k <= k  BY <2>1, <2>2
      <4> QED  BY <1>3, <1>8, <4>1
    <3>3. ASSUME NEW q \in Session, NEW r \in Session, sess'[q].cur = sess'[r].cur, sess'[q].cur # 0
          PROVE  q = r
      <4>1. sess[q].cur # k /\ sess[r].cur # k  BY <2>1, <2>2
      <4>2. CASE q = s  BY <1>3, <1>8, <3>3, <4>1, <4>2
      <4>3. CASE r = s  BY <1>3, <1>8, <3>3, <4>1, <4>3
      <4>4. CASE q # s /\ r # s  BY <1>8, <3>3, <4>4 DEF Inv, TokenInv, Issued
      <4> QED  BY <4>2, <4>3, <4>4
    <3>4. jar.token <= k
      <4>1. jar.token \in {0} \cup Token  BY DEF Inv, AuthTypeOK, Cookie
      <4>2. jar.token \in Nat /\ jar.token <= tokens  BY <4>1, Numbers DEF Inv, TokenInv, Issued
      <4> QED  BY <2>2, <4>2
    <3>5. ASSUME NEW u \in Tab PROVE mem'[u].token <= k /\ mem'[u].reply.token <= k
      <4>1. mem[u].token \in Nat /\ mem[u].reply.token \in Nat
        BY TokenType, Numbers DEF Cookie
      <4>2. mem[u].token <= tokens /\ mem[u].reply.token <= tokens  BY TokenType
      <4>3. mem[u].token <= k /\ mem[u].reply.token <= k /\ j <= k /\ k <= k
        BY <1>2, <2>2, <4>1, <4>2
      <4> QED  BY <1>5, <1>10, <4>3
    <3>7. ASSUME NEW u \in Tab, at'[u] \in Writing PROVE mem'[u].row <= sessions
      <4>1. u # t  BY <1>10, <3>7 DEF Writing
      <4> QED  BY <1>10, <3>7, <4>1 DEF Inv, TokenInv, Issued
    <3> QED  BY <1>6, <3>1, <3>2, <3>3, <3>4, <3>5, <3>7 DEF Issued
  <2>5. Exchanged'
    <3> SUFFICES ASSUME NEW i \in Token
                 PROVE  rotated'[i] <= 1 /\ (rotated'[i] # 0 => i <= k /\ \A r \in Session : sess'[r].cur # i)
      BY <1>6 DEF Exchanged
    <3>1. i \in Nat  BY Numbers
    <3>2. CASE i = j
      <4>1. j <= k /\ j # k /\ 1 <= 1  BY <1>2, <2>2
      <4>2. \A r \in Session : sess'[r].cur # j  BY <1>3, <1>8, <2>3, <4>1
      <4> QED  BY <1>9, <3>2, <4>1, <4>2
    <3>3. CASE i # j
      <4>1. rotated[i] <= 1 /\ (rotated[i] # 0 => i <= tokens /\ \A r \in Session : sess[r].cur # i)
        BY DEF Inv, TokenInv, Exchanged
      <4>2. i <= tokens => i <= k /\ i # k  BY <2>2, <3>1
      <4> QED  BY <1>3, <1>8, <1>9, <3>3, <4>1, <4>2
    <3> QED  BY <3>2, <3>3
  <2>6. RowHeld'
    <3>1. \A u \in Tab : at'[u] \in {"refresh.read", "refresh.rotate", "logout.read", "logout.write"}
            => u # t /\ mem[u].token # 0
      BY <1>10 DEF Inv, TokenInv, RowHeld
    <3>2. \A u \in Tab \ {t} : at[u] = "refresh.rotate" =>
            sess'[mem[u].row].cur = mem[u].token /\ ~sess'[mem[u].row].revoked
      <4> TAKE u \in Tab \ {t}
      <4> HAVE at[u] = "refresh.rotate"
      <4>1. mem[u].row \in Session  BY TokenType DEF Writing
      <4>2. sess[mem[u].row].cur = mem[u].token /\ ~sess[mem[u].row].revoked
        BY DEF Inv, TokenInv, RowHeld
      <4> QED  BY <1>0, <1>8, <4>1, <4>2
    <3>3. \A u \in Tab \ {t} : at[u] = "logout.write" =>
            \A r \in Session : sess'[r].cur = mem[u].token => r = mem[u].row
      <4> TAKE u \in Tab \ {t}
      <4> HAVE at[u] = "logout.write"
      <4> TAKE r \in Session
      <4> HAVE sess'[r].cur = mem[u].token
      <4>1. mem[u].token <= tokens /\ mem[u].token \in Nat  BY TokenType, Numbers
      <4>2. r # s  BY <1>3, <1>8, <2>2, <4>1
      <4> QED  BY <1>8, <4>2 DEF Inv, TokenInv, RowHeld
    <3> QED  BY <1>10, <3>1, <3>2, <3>3 DEF Inv, TokenInv, RowHeld
  <2> QED  BY <2>4, <2>5, <2>6 DEF TokenInv
<1> QED  BY <1>10, <1>11 DEF Inv

(* A revocation waits for the row, so no rotation of it is under way. *)
LEMMA RevokedStep ==
  ASSUME Inv, NEW t \in Tab, NEW s \in Session, s <= sessions, RowFree(s, t),
         NEW p \in {"idle", "logout.reply"}, NEW m \in Memory, Goto(t, p), Hold(t, m),
         m.token <= tokens, m.reply.token <= tokens,
         UNCHANGED <<now, requests, account, enabled, sessions, tokens, jar, fails, wrong, used, rotated, mishap, astray>>,
         sess' = [sess EXCEPT ![s].revoked = TRUE], blamed' \subseteq Session,
         signedOut' \subseteq {0} \cup Session
  PROVE  Inv'
<1> DEFINE row == [sess[s] EXCEPT !.revoked = TRUE]
<1>1. row \in SessionRow /\ row.cur = sess[s].cur /\ row.revoked
  <2>1. sess[s] \in SessionRow  BY TokenType
  <2> QED  BY <2>1 DEF SessionRow
<1>2. sess' = [sess EXCEPT ![s] = row]  OBVIOUS
<1> HIDE DEF row
<1>3. sess' \in [Session -> SessionRow] /\ sess'[s] = row /\ \A r \in Session \ {s} : sess'[r] = sess[r]
  BY <1>1, <1>2, TokenType
<1>4. \A r \in Session : sess'[r].cur = sess[r].cur /\ (sess[r].revoked => sess'[r].revoked)
  BY <1>1, <1>3
<1>5. /\ AuthTypeOK' /\ UserInv' /\ at'[t] = p /\ mem'[t] = m
      /\ \A u \in Tab \ {t} : at'[u] = at[u] /\ mem'[u] = mem[u]
  <2>1. p \in Point \ Checking /\ p \notin Writing  BY DEF Point, Checking, Writing
  <2>2. rotated' \in [Token -> Nat] /\ sessions' \in {0} \cup Session
        /\ tokens' \in {0} \cup Token
    BY TokenType
  <2> QED  BY <1>3, <2>1, <2>2, RowsType
<1>6. p \notin {"refresh.read", "refresh.rotate", "logout.read", "logout.write"} /\ p \notin Writing
  BY DEF Writing
<1>7. Issued'
  <2>1. ASSUME NEW r \in Session, r > sessions PROVE sess'[r] = NoRow
    <3>1. sess[r] = NoRow  BY <2>1 DEF Inv, TokenInv, Issued
    <3>2. r \in Nat /\ s \in Nat /\ sessions \in Nat  BY Numbers, TokenType
    <3>3. r # s  BY <2>1, <3>2
    <3> QED  BY <1>3, <3>1, <3>3
  <2>2. ASSUME NEW q \in Session, NEW r \in Session, sess'[q].cur = sess'[r].cur, sess'[q].cur # 0
        PROVE  q = r
    BY <1>4, <2>2 DEF Inv, TokenInv, Issued
  <2>3. \A u \in Tab : mem'[u].token <= tokens /\ mem'[u].reply.token <= tokens
    BY <1>5 DEF Inv, TokenInv, Issued
  <2>4. \A u \in Tab : at'[u] \in Writing => mem'[u].row <= sessions
    BY <1>5, <1>6 DEF Inv, TokenInv, Issued
  <2>6. \A r \in Session : sess'[r].cur <= tokens  BY <1>4 DEF Inv, TokenInv, Issued
  <2>7. jar.token <= tokens  BY DEF Inv, TokenInv, Issued
  <2> QED  BY <2>1, <2>2, <2>3, <2>4, <2>6, <2>7 DEF Issued
<1>8. Exchanged'  BY <1>4 DEF Inv, TokenInv, Exchanged
<1>9. RowHeld'
  <2>1. ASSUME NEW u \in Tab, at'[u] = "refresh.rotate"
        PROVE  sess'[mem'[u].row].cur = mem'[u].token /\ ~sess'[mem'[u].row].revoked
    <3>1. u # t /\ at[u] = "refresh.rotate" /\ mem'[u] = mem[u]  BY <1>5, <1>6, <2>1
    <3>2. mem[u].row \in Session /\ mem[u].row # s  BY <3>1, TokenType DEF Writing, RowFree
    <3> QED  BY <1>3, <3>1, <3>2 DEF Inv, TokenInv, RowHeld
  <2>2. \A u \in Tab : at'[u] = "logout.write" =>
          \A r \in Session : sess'[r].cur = mem'[u].token => r = mem'[u].row
    BY <1>4, <1>5, <1>6 DEF Inv, TokenInv, RowHeld
  <2>3. \A u \in Tab : at'[u] \in {"refresh.read", "refresh.rotate", "logout.read", "logout.write"}
          => u # t /\ mem'[u] = mem[u] /\ at'[u] = at[u]
    BY <1>5, <1>6
  <2> QED  BY <2>1, <2>2, <2>3 DEF Inv, TokenInv, RowHeld
<1> QED  BY <1>5, <1>7, <1>8, <1>9 DEF Inv, TokenInv

-----------------------------------------------------------------------------
(* Refresh and sign-out *)

(* A token that a tab carries was issued, and so was its answer. *)
LEMMA Carried ==
  ASSUME Inv, NEW t \in Tab, NEW s \in {0} \cup Session
  PROVE  [mem[t] EXCEPT !.row = s] \in Memory /\ [mem[t] EXCEPT !.row = s].row = s
         /\ [mem[t] EXCEPT !.row = s].token = mem[t].token
         /\ [mem[t] EXCEPT !.row = s].reply = mem[t].reply
BY TokenType DEF Memory

(* The row of a token that is not zero has been issued. *)
LEMMA RowIssued ==
  ASSUME Inv, NEW s \in Session, sess[s].cur # 0 \/ sess[s].prev # 0
  PROVE  s <= sessions
<1>1. s \in Nat /\ sessions \in Nat
  <2>1. sessions \in {0} \cup Session  BY DEF Inv, AuthTypeOK
  <2> QED  BY <2>1, Numbers
<1>2. sess[s] # NoRow  BY DEF NoRow
<1>3. ~(s > sessions)  BY <1>2 DEF Inv, TokenInv, Issued
<1> QED  BY <1>1, <1>3

(* The locking read of a refresh finds the row of its token, or one that   *)
(* had it before.                                                          *)
LEMMA RefreshReadStep == ASSUME Inv, NEW t \in Tab, RefreshRead(t) PROVE Inv'
<1> DEFINE k == mem[t].token
<1>1. k # 0 /\ at[t] = "refresh.read"  BY DEF RefreshRead, Inv, TokenInv, RowHeld
<1>2. UNCHANGED <<now, requests, account, enabled, rows, jar, fails, history>>  BY DEF RefreshRead
<1>3. CASE \E s \in Owner(k) : Usable(s) /\ Goto(t, "refresh.rotate") /\ Hold(t, [mem[t] EXCEPT !.row = s])
  <2>1. PICK s \in Owner(k) :
          Usable(s) /\ Goto(t, "refresh.rotate") /\ Hold(t, [mem[t] EXCEPT !.row = s])
    BY <1>3
  <2>2. s \in Session /\ sess[s].cur = k /\ ~sess[s].revoked /\ RowFree(s, t)
    BY <2>1 DEF Owner, Usable, RefreshRead
  <2> DEFINE m == [mem[t] EXCEPT !.row = s]
  <2>3. m \in Memory /\ m.row = s /\ m.token = k /\ m.reply = mem[t].reply  BY <2>2, Carried
  <2>4. s <= sessions  BY <1>1, <2>2, RowIssued
  <2>5. Goto(t, "refresh.rotate") /\ Hold(t, m)  BY <2>1
  <2> HIDE DEF m, k
  <2>6. "refresh.rotate" \in Point /\ "refresh.rotate" \notin Checking  BY DEF Point, Checking
  <2>7. /\ at' \in [Tab -> Point] /\ mem' \in [Tab -> Memory]
        /\ at'[t] = "refresh.rotate" /\ mem'[t] = m
        /\ \A u \in Tab \ {t} : at'[u] = at[u] /\ mem'[u] = mem[u]
        /\ \A u \in Tab : at'[u] \in Writing => mem'[u].row \in Session
    BY <2>2, <2>3, <2>5, <2>6, Moved DEF Inv
  <2>8. AuthTypeOK'  BY <1>2, <2>7 DEF Inv, AuthTypeOK, Writing, account, rows, history
  <2>9. UserInv'  BY <1>2, <2>6, <2>7, UserQuiet DEF Inv, account, history
  <2>10. Issued'
    BY <1>2, <2>3, <2>4, <2>7 DEF Inv, TokenInv, Issued, Writing, rows, history, k
  <2>11. Exchanged'  BY <1>2 DEF Inv, TokenInv, Exchanged, rows, history
  <2>12. RowHeld'
    <3>1. \A u \in Tab \ {t} : at[u] = "refresh.rotate" => mem[u].row # s  BY <2>2 DEF RowFree
    <3> QED  BY <1>1, <1>2, <2>2, <2>3, <2>7, <3>1 DEF Inv, TokenInv, RowHeld, rows
  <2> QED  BY <2>8, <2>9, <2>10, <2>11, <2>12 DEF Inv, TokenInv
<1>4. CASE \E s \in Former(k) : Goto(t, "refresh.reuse") /\ Hold(t, [mem[t] EXCEPT !.row = s])
  <2>1. PICK s \in Former(k) : Goto(t, "refresh.reuse") /\ Hold(t, [mem[t] EXCEPT !.row = s])
    BY <1>4
  <2>2. s \in Session /\ sess[s].prev = k  BY <2>1 DEF Former
  <2>3. s <= sessions  BY <1>1, <2>2, RowIssued
  <2>4. mishap \in BOOLEAN /\ mem[t].token <= tokens /\ mem[t].reply.token <= tokens  BY TokenType
  <2> DEFINE m == [mem[t] EXCEPT !.row = s]
  <2>5. m \in Memory /\ m.row = s /\ m.token = k /\ m.reply = mem[t].reply  BY <2>2, Carried
  <2>6. Goto(t, "refresh.reuse") /\ Hold(t, m)  BY <2>1
  <2> HIDE DEF m
  <2>7. "refresh.reuse" \in Point \ (Checking \cup {"refresh.rotate", "logout.write"})  BY DEF Point, Checking
  <2> QED  BY <1>2, <2>2, <2>3, <2>4, <2>5, <2>6, <2>7, QuietStep, JarIssued DEF history
<1> QED  BY <1>3, <1>4 DEF RefreshRead

(* A refresh revokes the session of a token that came back. *)
LEMMA ReuseStep == ASSUME Inv, NEW t \in Tab, RefreshReuse(t) PROVE Inv'
<1>1. mem[t].row \in Session /\ mem[t].row <= sessions /\ RowFree(mem[t].row, t)
  BY TokenType DEF RefreshReuse, Inv, TokenInv, Issued, Writing
<1>2. Blank \in Memory /\ Blank.token = 0 /\ Blank.reply.token = 0 /\ 0 <= tokens
  BY BlankType, TokenType DEF Blank, NoJar
<1>3. /\ UNCHANGED <<now, requests, account, enabled, sessions, tokens, jar, fails, wrong, used, rotated, mishap, astray>>
      /\ sess' = [sess EXCEPT ![mem[t].row].revoked = TRUE] /\ signedOut' = signedOut \cup {}
      /\ Goto(t, "idle") /\ Hold(t, Blank) /\ blamed' = blamed \cup {mem[t].row}
  BY DEF RefreshReuse, Finish
<1>4. blamed' \subseteq Session /\ signedOut' \subseteq {0} \cup Session  BY <1>1, <1>3, TokenType
<1> QED  BY <1>1, <1>2, <1>3, <1>4, RevokedStep

(* The other steps of a refresh write nothing. *)
LEMMA RefreshStep ==
  ASSUME Inv, NEW t \in Tab, Call(t) \/ RefreshSend(t) \/ RefreshEnded(t) \/ Receive(t)
  PROVE  Inv'
<1>1. CASE Call(t)
  <2>1. Goto(t, "refresh.send") /\ Hold(t, mem[t])
    <3>1. mem = [mem EXCEPT ![t] = mem[t]]  BY DEF Inv, AuthTypeOK
    <3> QED  BY <1>1, <3>1 DEF Call, Hold
  <2>2. /\ UNCHANGED <<now, account, enabled, rows, jar, fails, history>> /\ requests' = requests + 1
    BY <1>1 DEF Call
  <2>3. "refresh.send" \in Point \ (Checking \cup Writing)  BY DEF Point, Checking, Writing
  <2> QED  BY <2>1, <2>2, <2>3, QuietStep, JarIssued, TokenType DEF Writing, history
<1>2. CASE RefreshSend(t)
  <2>1. CASE jar.token = 0 /\ Finish(t) /\ UNCHANGED <<mishap, astray>>
    <3>1. "idle" \in Point \ (Checking \cup Writing)  BY DEF Point, Checking, Writing
    <3> QED  BY <1>2, <2>1, <3>1, BlankStep, JarIssued, TokenType DEF RefreshSend, Finish
  <2>2. CASE /\ jar.token # 0 /\ Goto(t, "refresh.read")
             /\ Hold(t, [Blank EXCEPT !.token = jar.token, !.meant = jar.sid])
             /\ mishap' \in BOOLEAN /\ astray' = astray \cup {s \in {jar.sid} : SigningOut(s)}
    <3> DEFINE m == [Blank EXCEPT !.token = jar.token, !.meant = jar.sid]
    <3>1. /\ jar.token \in {0} \cup Token /\ jar.token <= tokens /\ 0 <= tokens
          /\ jar.sid \in {0} \cup Session
      BY TokenType DEF Inv, AuthTypeOK, Cookie, TokenInv, Issued
    <3>2. m \in Memory  BY <3>1, BlankType DEF Memory
    <3>3. m.token = jar.token /\ m.reply.token = 0  BY DEF Blank, NoJar
    <3>4. "refresh.read" \in Point \ (Checking \cup Writing)  BY DEF Point, Checking, Writing
    <3> HIDE DEF m
    <3>5. Hold(t, m)  BY <2>2 DEF m
    <3>6. UNCHANGED <<now, requests, account, enabled, rows, jar, fails, wrong, used, rotated, signedOut, blamed>>
      BY <1>2 DEF RefreshSend
    <3>7. astray' \subseteq {0} \cup Session  BY <2>2, <3>1, JarIssued
    <3> QED  BY <2>2, <3>1, <3>2, <3>3, <3>4, <3>5, <3>6, <3>7, QuietStep, JarIssued DEF Writing
  <2> QED  BY <1>2, <2>1, <2>2 DEF RefreshSend
<1>3. CASE RefreshEnded(t)
  <2>1. "idle" \in Point \ (Checking \cup Writing)  BY DEF Point, Checking, Writing
  <2> QED  BY <1>3, <2>1, BlankStep, JarIssued, TokenType DEF RefreshEnded, Finish, history
<1>4. CASE Receive(t)
  <2>1. "idle" \in Point \ (Checking \cup Writing)  BY DEF Point, Checking, Writing
  <2> QED  BY <1>4, <2>1, BlankStep, JarIssued, TokenType DEF Receive, Finish, history
<1> QED  BY <1>1, <1>2, <1>3, <1>4

(* A logout revokes the session that it found. *)
LEMMA LogoutWriteStep == ASSUME Inv, NEW t \in Tab, LogoutWrite(t) PROVE Inv'
<1>1. mem[t].row \in Session /\ mem[t].row <= sessions /\ RowFree(mem[t].row, t)
  BY TokenType DEF LogoutWrite, Inv, TokenInv, Issued, Writing
<1>2. mem[t].meant \in {0} \cup Session  BY TokenType DEF Memory
<1>3. /\ UNCHANGED <<now, requests, account, enabled, sessions, tokens, jar, fails, wrong, used, rotated, mishap, astray>>
      /\ sess' = [sess EXCEPT ![mem[t].row].revoked = TRUE]
      /\ signedOut' = signedOut \cup {mem[t].meant} /\ UNCHANGED blamed
      /\ Goto(t, "logout.reply")
  BY DEF LogoutWrite
<1>4. Hold(t, mem[t])
  <2>1. mem = [mem EXCEPT ![t] = mem[t]]  BY DEF Inv, AuthTypeOK
  <2> QED  BY <2>1 DEF LogoutWrite, Hold
<1>5. signedOut' \subseteq {0} \cup Session /\ blamed' \subseteq Session  BY <1>2, <1>3, TokenType
<1> QED  BY <1>1, <1>2, <1>3, <1>4, <1>5, RevokedStep, TokenType

(* So does the revocation from the list of sessions. *)
LEMMA RevokeWriteStep == ASSUME Inv, NEW t \in Tab, RevokeWrite(t) PROVE Inv'
<1>1. mem[t].row \in Session /\ mem[t].row <= sessions /\ RowFree(mem[t].row, t)
  BY TokenType DEF RevokeWrite, Inv, TokenInv, Issued, Writing
<1>2. Blank \in Memory /\ Blank.token = 0 /\ Blank.reply.token = 0 /\ 0 <= tokens
  BY BlankType, TokenType DEF Blank, NoJar
<1>3. /\ UNCHANGED <<now, requests, account, enabled, sessions, tokens, jar, fails, wrong, used, rotated, mishap, astray>>
      /\ sess' = [sess EXCEPT ![mem[t].row].revoked = TRUE] /\ signedOut' = signedOut \cup {}
      /\ Goto(t, "idle") /\ Hold(t, Blank) /\ UNCHANGED blamed
  BY DEF RevokeWrite, Finish, history
<1>4. blamed' \subseteq Session /\ signedOut' \subseteq {0} \cup Session  BY <1>3, TokenType
<1> QED  BY <1>1, <1>2, <1>3, <1>4, RevokedStep

(* A logout that finds the session of its token finds all of them. *)
LEMMA LogoutFoundStep == ASSUME Inv, NEW t \in Tab, LogoutFound(t) PROVE Inv'
<1> DEFINE k == mem[t].token
<1>1. k # 0 /\ at[t] = "logout.read"  BY DEF LogoutFound, Inv, TokenInv, RowHeld
<1>2. PICK s \in Owner(k) : ~sess[s].revoked /\ Goto(t, "logout.write") /\ Hold(t, [mem[t] EXCEPT !.row = s])
  BY DEF LogoutFound
<1>3. UNCHANGED <<now, requests, account, enabled, rows, jar, fails, history>>  BY DEF LogoutFound
<1> DEFINE m == [mem[t] EXCEPT !.row = s]
<1>4. s \in Session /\ sess[s].cur = k  BY <1>2 DEF Owner
<1>5. m \in Memory /\ m.row = s /\ m.token = k /\ m.reply = mem[t].reply  BY <1>4, Carried
<1>6. s <= sessions  BY <1>1, <1>4, RowIssued
<1>7. Hold(t, m)  BY <1>2
<1>8. \A r \in Session : sess[r].cur = k => r = s  BY <1>1, <1>4 DEF Inv, TokenInv, Issued
<1> HIDE DEF m, k
<1>9. "logout.write" \in Point /\ "logout.write" \notin Checking  BY DEF Point, Checking
<1>10. /\ at' \in [Tab -> Point] /\ mem' \in [Tab -> Memory]
       /\ at'[t] = "logout.write" /\ mem'[t] = m
       /\ \A u \in Tab \ {t} : at'[u] = at[u] /\ mem'[u] = mem[u]
       /\ \A u \in Tab : at'[u] \in Writing => mem'[u].row \in Session
  BY <1>2, <1>4, <1>5, <1>7, <1>9, Moved DEF Inv
<1>11. AuthTypeOK'  BY <1>3, <1>10 DEF Inv, AuthTypeOK, Writing, account, rows, history
<1>12. UserInv'  BY <1>3, <1>9, <1>10, UserQuiet DEF Inv, account, history
<1>13. Issued'  BY <1>3, <1>5, <1>6, <1>10 DEF Inv, TokenInv, Issued, Writing, rows, history, k
<1>14. Exchanged'  BY <1>3 DEF Inv, TokenInv, Exchanged, rows, history
<1>15. RowHeld'  BY <1>1, <1>3, <1>5, <1>8, <1>10 DEF Inv, TokenInv, RowHeld, rows
<1> QED  BY <1>11, <1>12, <1>13, <1>14, <1>15 DEF Inv, TokenInv

(* One that finds no session writes nothing. *)
LEMMA LogoutNothingStep == ASSUME Inv, NEW t \in Tab, LogoutNothing(t) PROVE Inv'
<1>1. mem[t].meant \in {0} \cup Session  BY TokenType DEF Memory
<1>2. /\ UNCHANGED <<now, requests, account, enabled, rows, jar, fails, wrong, used, rotated, blamed, mishap, astray>>
      /\ signedOut' = signedOut \cup {mem[t].meant} /\ Goto(t, "logout.reply") /\ mem' = mem
  BY DEF LogoutNothing
<1>3. Hold(t, mem[t])
  <2>1. mem = [mem EXCEPT ![t] = mem[t]]  BY DEF Inv, AuthTypeOK
  <2> QED  BY <1>2, <2>1 DEF Hold
<1>4. "logout.reply" \in Point \ Checking /\ "logout.reply" \notin Writing  BY DEF Point, Checking, Writing
<1>5. /\ AuthTypeOK' /\ UserInv' /\ at'[t] = "logout.reply" /\ mem'[t] = mem[t]
      /\ \A u \in Tab \ {t} : at'[u] = at[u] /\ mem'[u] = mem[u]
  <2>1. signedOut' \subseteq {0} \cup Session  BY <1>1, <1>2, TokenType
  <2> QED  BY <1>2, <1>3, <1>4, <2>1, RowsType, TokenType DEF rows
<1>6. Issued'
  <2>2. \A u \in Tab : at'[u] \in Writing => mem'[u].row <= sessions
    BY <1>4, <1>5 DEF Inv, TokenInv, Issued
  <2> QED  BY <1>2, <2>2 DEF Inv, TokenInv, Issued, rows
<1>7. Exchanged'  BY <1>2 DEF Inv, TokenInv, Exchanged, rows
<1>8. RowHeld'
  <2>1. \A u \in Tab : at'[u] \in {"refresh.read", "refresh.rotate", "logout.read", "logout.write"}
          => at'[u] = at[u]
    BY <1>5
  <2> QED  BY <1>2, <2>1 DEF Inv, TokenInv, RowHeld, rows
<1> QED  BY <1>5, <1>6, <1>7, <1>8 DEF Inv, TokenInv

(* The other steps of a sign-out write nothing. *)
LEMMA SignOutStep ==
  ASSUME Inv, NEW t \in Tab, Logout(t) \/ LogoutReply(t) \/ \E s \in Session : Revoke(t, s)
  PROVE  Inv'
<1>1. CASE Logout(t)
  <2> DEFINE m == [Blank EXCEPT !.token = jar.token, !.meant = jar.sid]
  <2>1. /\ jar.token \in {0} \cup Token /\ jar.token <= tokens /\ 0 <= tokens
        /\ jar.sid \in {0} \cup Session
    BY TokenType DEF Inv, AuthTypeOK, Cookie, TokenInv, Issued
  <2>2. m \in Memory  BY <2>1, BlankType DEF Memory
  <2>3. m.token = jar.token /\ m.reply.token = 0  BY DEF Blank, NoJar
  <2>4. "logout.read" \in Point \ (Checking \cup Writing)  BY DEF Point, Checking, Writing
  <2>5. Goto(t, "logout.read") /\ Hold(t, m) /\ jar.token # 0  BY <1>1 DEF Logout
  <2> HIDE DEF m
  <2>6. /\ UNCHANGED <<now, account, enabled, rows, jar, fails, wrong, used, rotated, signedOut, blamed, mishap>>
        /\ requests' = requests + 1
    BY <1>1 DEF Logout
  <2>7. astray' \subseteq {0} \cup Session  BY <1>1, <2>1, JarIssued DEF Logout
  <2> QED  BY <2>1, <2>2, <2>3, <2>4, <2>5, <2>6, <2>7, QuietStep, JarIssued, TokenType DEF Writing
<1>2. CASE LogoutReply(t)
  <2>1. "idle" \in Point \ (Checking \cup Writing)  BY DEF Point, Checking, Writing
  <2>2. NoJar \in Cookie /\ NoJar.token <= tokens  BY BlankType, TokenType DEF NoJar
  <2> QED  BY <1>2, <2>1, <2>2, BlankStep, JarIssued, TokenType DEF LogoutReply, Finish, history
<1>3. CASE \E s \in Session : Revoke(t, s)
  <2>1. PICK s \in Session : Revoke(t, s)  BY <1>3
  <2> DEFINE m == [Blank EXCEPT !.row = s]
  <2>2. m \in Memory  BY BlankType DEF Memory
  <2>3. m.token = 0 /\ m.reply.token = 0 /\ m.row = s  BY DEF Blank, NoJar
  <2>4. "revoke.write" \in Point \ (Checking \cup {"refresh.rotate", "logout.write"})  BY DEF Point, Checking
  <2>5. Goto(t, "revoke.write") /\ Hold(t, m) /\ s <= sessions /\ 0 <= tokens  BY <2>1, TokenType DEF Revoke
  <2> HIDE DEF m
  <2>6. UNCHANGED <<now, account, enabled, rows, jar, fails, history>> /\ requests' = requests + 1
    BY <2>1 DEF Revoke
  <2> QED  BY <2>2, <2>3, <2>4, <2>5, <2>6, QuietStep, JarIssued, TokenType DEF history
<1> QED  BY <1>1, <1>2, <1>3

(* A request that is cut off takes nothing with it. *)
LEMMA FailStep == ASSUME Inv, NEW t \in Tab, Fail(t) PROVE Inv'
<1>1. "idle" \in Point \ (Checking \cup Writing)  BY DEF Point, Checking, Writing
<1>2. mishap' \in BOOLEAN /\ fails' \in Nat /\ Goto(t, "idle") /\ Hold(t, Blank)
  BY TokenType, JarIssued DEF Fail, Finish
<1>4. astray' \subseteq {0} \cup Session
  <2>1. mem[t].meant \in {0} \cup Session  BY TokenType DEF Memory
  <2> QED  BY <2>1, JarIssued DEF Fail
<1>3. UNCHANGED <<now, requests, account, enabled, rows, jar, wrong, used, rotated, signedOut, blamed>>
  BY DEF Fail
<1> QED  BY <1>1, <1>2, <1>3, <1>4, BlankStep, JarIssued

(* Time passes. *)
LEMMA TickStep == ASSUME Inv, Tick PROVE Inv'
<1>1. now' \in Time  BY Numbers DEF Tick, Inv, AuthTypeOK, Time
<1>2. UNCHANGED <<requests, account, enabled, rows, jar, at, mem, fails, history>>  BY DEF Tick
<1>3. AuthTypeOK'  BY <1>1, <1>2 DEF Inv, AuthTypeOK, account, rows, history
<1>4. UserInv'  BY <1>2 DEF Inv, UserInv, UserHeld, Counted, Spent, Lawful, account, history
<1>5. TokenInv'  BY <1>2 DEF Inv, TokenInv, Issued, Exchanged, RowHeld, rows, history
<1> QED  BY <1>3, <1>4, <1>5 DEF Inv

-----------------------------------------------------------------------------
(* The invariant and what follows from it *)

(* At the start nothing is issued, used or counted. *)
LEMMA InitInv == Init => Inv
<1> SUFFICES ASSUME Init PROVE Inv  OBVIOUS
<1>1. AuthTypeOK
  <2>1. /\ now \in Time /\ last \in {-1} \cup Time
        /\ mem \in [Tab -> Memory] /\ sess \in [Session -> SessionRow] /\ jar \in Cookie
        /\ pw \in Counter /\ mfa \in Counter
    BY BlankType, Numbers DEF Init
  <2>2. \A t \in Tab : at[t] = "idle"  BY DEF Init
  <2>3. at \in [Tab -> Point]  BY DEF Init, Point
  <2> QED  BY <2>1, <2>2, <2>3 DEF Init, AuthTypeOK
<1>2. UserInv
  <2>1. UserHeld  BY DEF Init, UserHeld, Checking
  <2>2. Counted  BY Numbers DEF Init, Counted, Lawful, Zero
  <2>3. Spent  BY DEF Init, Spent
  <2> QED  BY <2>1, <2>2, <2>3 DEF UserInv
<1>3. TokenInv
  <2>1. Issued  BY DEF Init, Issued, NoRow, NoJar, Blank, Writing
  <2>2. Exchanged /\ RowHeld  BY DEF Init, Exchanged, RowHeld
  <2> QED  BY <2>1, <2>2 DEF TokenInv
<1> QED  BY <1>1, <1>2, <1>3 DEF Inv

(* Every step keeps it. *)
LEMMA NextInv == Inv /\ [Next]_vars => Inv'
<1> SUFFICES ASSUME Inv, [Next]_vars PROVE Inv'  OBVIOUS
<1>1. CASE UNCHANGED vars
  <2>1. UNCHANGED <<now, requests, account, enabled, rows, jar, at, mem, fails, history>>
    BY <1>1 DEF vars
  <2>2. AuthTypeOK'  BY <2>1 DEF Inv, AuthTypeOK, account, rows, history
  <2>3. UserInv'  BY <2>1 DEF Inv, UserInv, UserHeld, Counted, Spent, Lawful, account, history
  <2>4. TokenInv'  BY <2>1 DEF Inv, TokenInv, Issued, Exchanged, RowHeld, rows, history
  <2> QED  BY <2>2, <2>3, <2>4 DEF Inv
<1>2. CASE Tick  BY <1>2, TickStep
<1>3. ASSUME NEW t \in Tab, SignIn(t) PROVE Inv'
  BY <1>3, Begun, UserRead, LoginRefusedStep, LoginAcceptedStep, VerifyRefusedStep, VerifyAcceptedStep,
     IssueStep
  DEF SignIn
<1>4. ASSUME NEW t \in Tab, Refresh(t) PROVE Inv'
  BY <1>4, RefreshStep, RefreshReadStep, RotateStep, ReuseStep DEF Refresh
<1>5. ASSUME NEW t \in Tab, SignOut(t) PROVE Inv'
  BY <1>5, SignOutStep, LogoutFoundStep, LogoutNothingStep, LogoutWriteStep, RevokeWriteStep DEF SignOut
<1>6. ASSUME NEW t \in Tab, Fail(t) PROVE Inv'  BY <1>6, FailStep
<1> QED  BY <1>1, <1>2, <1>3, <1>4, <1>5, <1>6 DEF Next

(* It holds in every reachable state. *)
LEMMA SpecInv == Spec => []Inv
BY InitInv, NextInv, PTL DEF Spec

(* Every variable keeps its type; a step that writes a session row holds   *)
(* the id of one (api/auth.py).                                            *)
THEOREM AuthTypeCorrect == Spec => []AuthTypeOK
<1>1. Inv => AuthTypeOK  BY DEF Inv
<1> QED  BY <1>1, SpecInv, PTL

(* No more than Limit wrong passwords or codes are checked between two     *)
(* resets, for any number of overlapping requests (_record_failed_auth,    *)
(* _record_failed_mfa): the row lock makes the counter that a request      *)
(* checks the one that it increments.                                      *)
THEOREM LockoutStands == Spec => []LockoutHolds
<1>1. Inv => LockoutHolds
  <2> SUFFICES ASSUME Inv PROVE LockoutHolds  OBVIOUS
  <2>1. pw.n \in 0..Limit /\ mfa.n \in 0..Limit  BY DEF Inv, AuthTypeOK, Counter
  <2> QED  BY <2>1, Numbers DEF Inv, UserInv, Counted, LockoutHolds
<1> QED  BY <1>1, SpecInv, PTL

(* A TOTP step or a recovery code signs in at most once                    *)
(* (_consume_mfa_code).                                                    *)
THEOREM CodesOnce == Spec => []CodeOnce
<1>1. Inv => CodeOnce  BY DEF Inv, UserInv, Spent, CodeOnce
<1> QED  BY <1>1, SpecInv, PTL

(* A refresh token is exchanged at most once (refresh_session). *)
THEOREM TokensOnce == Spec => []TokenOnce
<1>1. Inv => TokenOnce  BY DEF Inv, TokenInv, Exchanged, TokenOnce
<1> QED  BY <1>1, SpecInv, PTL

(* A revocation writes a row that is revoked already as it was. *)
LEMMA RevokedAgain ==
  ASSUME Inv, NEW s \in Session, sess[s].revoked, NEW r \in Session,
         sess' = [sess EXCEPT ![r].revoked = TRUE]
  PROVE  sess'[s] = sess[s]
<1>1. sess \in [Session -> SessionRow] /\ sess[s] \in SessionRow  BY DEF Inv, AuthTypeOK
<1>2. sess[s] = [sess[s] EXCEPT !.revoked = TRUE]  BY <1>1 DEF SessionRow
<1>3. CASE r = s  BY <1>1, <1>2, <1>3
<1>4. CASE r # s  BY <1>1, <1>4
<1> QED  BY <1>3, <1>4

(* A revoked session is never written again (refresh_session,              *)
(* revoke_session, logout).                                                *)
THEOREM RevocationFinal == Spec => RevokedFinal
<1> DEFINE Kept == \A s \in Session : sess[s].revoked => sess'[s] = sess[s]
<1>1. Inv /\ [Next]_vars => [Kept]_vars
  <2> SUFFICES ASSUME Inv, Next, NEW s \in Session, sess[s].revoked PROVE sess'[s] = sess[s]
    OBVIOUS
  <2>1. sess \in [Session -> SessionRow]  BY DEF Inv, AuthTypeOK
  <2>2. ASSUME NEW t \in Tab, Issue(t) PROVE sess'[s] = sess[s]
    <3>1. sess[sessions + 1] = NoRow /\ sessions + 1 \in Session
      BY <2>2, TokenType DEF Issue, Inv, TokenInv, Issued
    <3>2. s # sessions + 1  BY <3>1 DEF NoRow
    <3> QED  BY <2>1, <2>2, <3>1, <3>2 DEF Issue
  <2>3. ASSUME NEW t \in Tab, RefreshRotate(t) PROVE sess'[s] = sess[s]
    <3>1. mem[t].row # s  BY <2>3 DEF RefreshRotate, Inv, TokenInv, RowHeld
    <3> QED  BY <2>1, <2>3, <3>1 DEF RefreshRotate
  <2>4. ASSUME NEW t \in Tab, RefreshReuse(t) \/ LogoutWrite(t) \/ RevokeWrite(t) PROVE sess'[s] = sess[s]
    <3>1. mem[t].row \in Session  BY <2>4, TokenType DEF RefreshReuse, LogoutWrite, RevokeWrite, Writing
    <3>2. sess' = [sess EXCEPT ![mem[t].row].revoked = TRUE]  BY <2>4 DEF RefreshReuse, LogoutWrite, RevokeWrite
    <3> QED  BY <3>1, <3>2, RevokedAgain
  <2>5. ASSUME NEW t \in Tab, SignIn(t), ~Issue(t) PROVE sess' = sess
    BY <2>5 DEF SignIn, Login, LoginRead, LoginRefused, LoginAccepted, Verify, VerifyRead, VerifyRefused,
                VerifyAccepted, Abandon, rows
  <2>6. ASSUME NEW t \in Tab, Refresh(t), ~RefreshRotate(t), ~RefreshReuse(t) PROVE sess' = sess
    BY <2>6 DEF Refresh, Call, RefreshSend, RefreshRead, RefreshEnded, Receive, rows
  <2>7. ASSUME NEW t \in Tab, SignOut(t), ~LogoutWrite(t), ~RevokeWrite(t) PROVE sess' = sess
    BY <2>7 DEF SignOut, Logout, LogoutFound, LogoutNothing, LogoutReply, Revoke, rows
  <2>8. ASSUME NEW t \in Tab, Fail(t) PROVE sess' = sess  BY <2>8 DEF Fail, rows
  <2>9. Tick => sess' = sess  BY DEF Tick, rows
  <2> QED  BY <2>2, <2>3, <2>4, <2>5, <2>6, <2>7, <2>8, <2>9 DEF Next
<1> QED  BY <1>1, SpecInv, PTL DEF Spec, RevokedFinal

-----------------------------------------------------------------------------
(* Tabs that take turns *)

Answer == {"reply", "refresh.reply"}

(* Two refreshes under way do not carry the same token. *)
Apart == \A t, u \in Tab : at[t] \in Flight /\ at[u] \in Flight /\ mem[t].token = mem[u].token => t = u

(* A token that was exchanged is in the cookies only while the answer with *)
(* the new one is on its way, and no refresh that is yet to be served      *)
(* carries it.                                                             *)
JarCurrent == \A s \in Session : sess[s].prev # 0 /\ jar.token = sess[s].prev
                => \E t \in Tab : at[t] = "refresh.reply" /\ mem[t].token = sess[s].prev
SentCurrent == \A t \in Tab : at[t] = "refresh.read" => \A s \in Session : mem[t].token # sess[s].prev

(* A token on its way to the browser has never been anywhere else. *)
New(t) ==
  /\ mem[t].reply.token # 0 /\ mem[t].reply.token # jar.token
  /\ \A s \in Session : mem[t].reply.token # sess[s].prev
  /\ \A u \in Tab : at[u] \in Flight => mem[t].reply.token # mem[u].token
  /\ \A u \in Tab \ {t} : at[u] \in Answer => mem[t].reply.token # mem[u].reply.token
AnswersNew == \A t \in Tab : at[t] \in Answer => New(t)

NobodyBlamed == blamed = {} /\ \A t \in Tab : at[t] # "refresh.reuse"

Turns == NobodyBlamed /\ Apart /\ JarCurrent /\ SentCurrent /\ AnswersNew

(* Until a mishap nobody is blamed: a token comes back only from a tab that *)
(* was left without the answer to its refresh, or that shared the token.   *)
TurnInv == (\A s \in Session : sess[s].prev <= tokens) /\ (mishap \/ Turns)

(* The steps outside the refresh of a token: no token is exchanged, sent or *)
(* received, and no refresh loses its answer.                              *)
LEMMA TurnQuiet ==
  ASSUME TurnInv, NEW t \in Tab, \A u \in Tab \ {t} : at'[u] = at[u] /\ mem'[u] = mem[u],
         at'[t] \notin Flight \cup Answer, at[t] = "refresh.reply" => mishap',
         mishap => mishap', jar' = jar \/ jar' = NoJar,
         \A s \in Session : sess'[s].prev = sess[s].prev, blamed' = blamed,
         tokens' = tokens
  PROVE  TurnInv'
<1>1. \A s \in Session : sess'[s].prev <= tokens'  BY DEF TurnInv
<1> SUFFICES ASSUME ~mishap' PROVE Turns'  BY <1>1 DEF TurnInv
<1>2. Turns /\ at[t] # "refresh.reply"  BY DEF TurnInv
<1>3. NobodyBlamed'  BY <1>2 DEF Turns, NobodyBlamed, Flight
<1>4. Apart' /\ SentCurrent'  BY <1>2 DEF Turns, Apart, SentCurrent, Flight
<1>5. JarCurrent'  BY <1>2 DEF Turns, JarCurrent, NoJar
<1>6. AnswersNew'
  <2> SUFFICES ASSUME NEW u \in Tab, at'[u] \in Answer PROVE New(u)'  BY DEF AnswersNew
  <2>1. u # t /\ at[u] \in Answer /\ mem'[u] = mem[u]  OBVIOUS
  <2>2. New(u)  BY <1>2, <2>1 DEF Turns, AnswersNew
  <2>3. mem'[u].reply.token # jar'.token  BY <2>1, <2>2 DEF New, NoJar
  <2> QED  BY <2>1, <2>2, <2>3 DEF New
<1> QED  BY <1>3, <1>4, <1>5, <1>6 DEF Turns

(* The memory of the other tabs. *)
LEMMA Elsewhere ==
  ASSUME Inv, NEW t \in Tab, NEW p, NEW m, Goto(t, p), Hold(t, m)
  PROVE  at'[t] = p /\ mem'[t] = m /\ \A u \in Tab \ {t} : at'[u] = at[u] /\ mem'[u] = mem[u]
BY DEF Inv, AuthTypeOK, Goto, Hold

(* A refresh that sends its token: the answer that would replace the token *)
(* is not on its way, or another refresh carries it.                       *)
LEMMA TurnSend == ASSUME Inv, TurnInv, NEW t \in Tab, RefreshSend(t) PROVE TurnInv'
<1>1. CASE jar.token = 0 /\ Finish(t) /\ UNCHANGED <<mishap, astray>>
  <2>1. at'[t] = "idle" /\ \A u \in Tab \ {t} : at'[u] = at[u] /\ mem'[u] = mem[u]
    BY <1>1, Elsewhere DEF Finish
  <2>2. at[t] = "refresh.send" /\ UNCHANGED <<sess, tokens, jar, blamed>>  BY DEF RefreshSend, rows
  <2> QED  BY <1>1, <2>1, <2>2, TurnQuiet DEF Flight, Answer
<1>2. CASE /\ jar.token # 0 /\ Goto(t, "refresh.read")
           /\ Hold(t, [Blank EXCEPT !.token = jar.token, !.meant = jar.sid])
           /\ mishap' = (mishap \/ \E u \in Tab : at[u] \in Flight /\ mem[u].token = jar.token)
  <2>1. /\ at'[t] = "refresh.read" /\ mem'[t].token = jar.token
        /\ \A u \in Tab \ {t} : at'[u] = at[u] /\ mem'[u] = mem[u]
    <3> DEFINE m == [Blank EXCEPT !.token = jar.token, !.meant = jar.sid]
    <3>1. m.token = jar.token /\ Goto(t, "refresh.read") /\ Hold(t, m)  BY <1>2 DEF Blank
    <3> HIDE DEF m
    <3> QED  BY <3>1, Elsewhere
  <2>2. at[t] = "refresh.send" /\ UNCHANGED <<sess, tokens, jar, blamed>>  BY DEF RefreshSend, rows
  <2>3. \A s \in Session : sess'[s].prev <= tokens'  BY <2>2 DEF TurnInv
  <2> SUFFICES ASSUME ~mishap' PROVE Turns'  BY <2>3 DEF TurnInv
  <2>4. Turns /\ \A u \in Tab : at[u] \in Flight => mem[u].token # jar.token  BY <1>2 DEF TurnInv
  <2>5. NobodyBlamed'  BY <2>1, <2>2, <2>4 DEF Turns, NobodyBlamed
  <2>6. Apart'  BY <2>1, <2>4 DEF Turns, Apart
  <2>7. \A s \in Session : jar.token # sess[s].prev
    BY <1>2, <2>4 DEF Turns, JarCurrent, Flight
  <2>8. JarCurrent' /\ SentCurrent'
    BY <2>1, <2>2, <2>4, <2>7 DEF Turns, JarCurrent, SentCurrent
  <2>9. AnswersNew'
    <3> SUFFICES ASSUME NEW u \in Tab, at'[u] \in Answer PROVE New(u)'  BY DEF AnswersNew
    <3>1. u # t /\ at[u] \in Answer /\ mem'[u] = mem[u]  BY <2>1 DEF Answer
    <3>2. New(u)  BY <2>4, <3>1 DEF Turns, AnswersNew
    <3>3. \A v \in Tab : at'[v] \in Flight => mem'[u].reply.token # mem'[v].token
      BY <2>1, <3>1, <3>2 DEF New
    <3>4. \A v \in Tab \ {u} : at'[v] \in Answer => mem'[u].reply.token # mem'[v].reply.token
      <4> TAKE v \in Tab \ {u}
      <4> HAVE at'[v] \in Answer
      <4>1. v # t  BY <2>1 DEF Answer
      <4> QED  BY <2>1, <3>1, <3>2, <4>1 DEF New
    <3> QED  BY <2>2, <3>1, <3>2, <3>3, <3>4 DEF New
  <2> QED  BY <2>5, <2>6, <2>8, <2>9 DEF Turns
<1> QED  BY <1>1, <1>2 DEF RefreshSend

(* A refresh that reads its row finds its token current, or finds nothing. *)
LEMMA TurnRead == ASSUME Inv, TurnInv, NEW t \in Tab, RefreshRead(t) PROVE TurnInv'
<1> DEFINE k == mem[t].token
<1>1. k # 0 /\ at[t] = "refresh.read"  BY DEF RefreshRead, Inv, TokenInv, RowHeld
<1>2. UNCHANGED <<sess, tokens, jar, blamed, mishap>>  BY DEF RefreshRead, rows, history
<1>3. \A s \in Session : sess'[s].prev <= tokens'  BY <1>2 DEF TurnInv
<1> SUFFICES ASSUME ~mishap PROVE Turns'  BY <1>2, <1>3 DEF TurnInv
<1>4. Turns  BY DEF TurnInv
<1>5. Former(k) = {}  BY <1>1, <1>4 DEF Turns, SentCurrent, Former
<1>6. PICK s \in Owner(k) : Goto(t, "refresh.rotate") /\ Hold(t, [mem[t] EXCEPT !.row = s])
  BY <1>5 DEF RefreshRead
<1>7. /\ at'[t] = "refresh.rotate" /\ mem'[t].token = mem[t].token
      /\ \A u \in Tab \ {t} : at'[u] = at[u] /\ mem'[u] = mem[u]
  <2> DEFINE m == [mem[t] EXCEPT !.row = s]
  <2>1. s \in {0} \cup Session  BY <1>6 DEF Owner
  <2>2. m.token = mem[t].token  BY <2>1, Carried
  <2>3. Goto(t, "refresh.rotate") /\ Hold(t, m)  BY <1>6
  <2> HIDE DEF m
  <2> QED  BY <2>2, <2>3, Elsewhere
<1> HIDE DEF k
<1>8. NobodyBlamed'  BY <1>2, <1>4, <1>7 DEF Turns, NobodyBlamed
<1>9. Apart' /\ SentCurrent'  BY <1>1, <1>2, <1>4, <1>7 DEF Turns, Apart, SentCurrent, Flight
<1>10. JarCurrent'  BY <1>1, <1>2, <1>4, <1>7 DEF Turns, JarCurrent
<1>11. AnswersNew'
  <2> SUFFICES ASSUME NEW u \in Tab, at'[u] \in Answer PROVE New(u)'  BY DEF AnswersNew
  <2>1. u # t /\ at[u] \in Answer /\ mem'[u] = mem[u]  BY <1>7 DEF Answer
  <2>2. New(u)  BY <1>4, <2>1 DEF Turns, AnswersNew
  <2>3. \A v \in Tab : at'[v] \in Flight => at[v] \in Flight /\ mem'[v].token = mem[v].token
    BY <1>1, <1>7 DEF Flight
  <2>4. \A v \in Tab : at'[v] \in Answer => at[v] \in Answer /\ mem'[v] = mem[v]
    BY <1>7 DEF Answer
  <2> QED  BY <1>2, <2>1, <2>2, <2>3, <2>4 DEF New
<1> QED  BY <1>8, <1>9, <1>10, <1>11 DEF Turns

(* Nobody gets as far as blaming a session before a mishap. *)
LEMMA TurnReuse == ASSUME Inv, TurnInv, NEW t \in Tab, RefreshReuse(t) PROVE TurnInv'
<1>1. at[t] = "refresh.reuse" /\ tokens' = tokens /\ mishap' = mishap  BY DEF RefreshReuse
<1>2. mishap  BY <1>1 DEF TurnInv, Turns, NobodyBlamed
<1>3. \A s \in Session : sess'[s].prev = sess[s].prev
  BY TokenType DEF RefreshReuse, SessionRow, Writing
<1> QED  BY <1>1, <1>2, <1>3 DEF TurnInv

(* A rotation: the token it replaces is carried by no other refresh, and    *)
(* the new one is in no other answer.                                      *)
LEMMA TurnRotate == ASSUME Inv, TurnInv, NEW t \in Tab, RefreshRotate(t) PROVE TurnInv'
<1> DEFINE s == mem[t].row
           j == mem[t].token
           k == tokens + 1
           m == [mem[t] EXCEPT !.reply = Cookies(s, k)]
<1>1. at[t] = "refresh.rotate" /\ s \in Session  BY TokenType DEF RefreshRotate, Writing
<1>2. sess[s].cur = j /\ j # 0 /\ j <= tokens /\ j \in Nat /\ tokens \in Nat
  BY <1>1, TokenType, Numbers DEF Inv, TokenInv, RowHeld
<1>3. sess' = [sess EXCEPT ![s] = Rotated(@, k)] /\ tokens' = k /\ UNCHANGED <<jar, blamed, mishap>>
  BY DEF RefreshRotate
<1>4. at'[t] = "refresh.reply" /\ mem'[t] = m /\ \A u \in Tab \ {t} : at'[u] = at[u] /\ mem'[u] = mem[u]
  <2>1. Goto(t, "refresh.reply") /\ Hold(t, m)  BY DEF RefreshRotate
  <2> HIDE DEF m
  <2> QED  BY <2>1, Elsewhere
<1>5. m.token = j /\ m.reply.token = k  BY TokenType DEF Memory, Cookies
<1>6. sess'[s].prev = j /\ \A r \in Session \ {s} : sess'[r].prev = sess[r].prev
  <2>1. sess \in [Session -> SessionRow] /\ sess[s] \in SessionRow  BY <1>1, TokenType
  <2>2. Rotated(sess[s], k).prev = j  BY <1>2, <2>1 DEF SessionRow, Rotated
  <2> QED  BY <1>1, <1>3, <2>1, <2>2
<1>7. \A r \in Session : sess[r].prev \in Nat
  <2>1. \A r \in Session : sess[r] \in SessionRow  BY TokenType
  <2>2. \A r \in Session : sess[r].prev \in {0} \cup Token  BY <2>1 DEF SessionRow
  <2> QED  BY <2>2, Numbers
<1>8. \A r \in Session : sess[r].prev <= tokens  BY DEF TurnInv
<1>9. \A r \in Session : sess'[r].prev < k  BY <1>2, <1>6, <1>7, <1>8
<1>10. \A u \in Tab : mem[u].token < k /\ mem[u].reply.token < k
  <2> TAKE u \in Tab
  <2>1. mem[u].token \in Nat /\ mem[u].reply.token \in Nat  BY TokenType, Numbers DEF Cookie
  <2>2. mem[u].token <= tokens /\ mem[u].reply.token <= tokens  BY TokenType
  <2> QED  BY <1>2, <2>1, <2>2
<1>11. jar.token < k
  <2>1. jar.token \in {0} \cup Token  BY DEF Inv, AuthTypeOK, Cookie
  <2>2. jar.token \in Nat /\ jar.token <= tokens  BY <2>1, Numbers DEF Inv, TokenInv, Issued
  <2> QED  BY <1>2, <2>2
<1>12. k \in Nat /\ k # 0  BY <1>2
<1> HIDE DEF s, j, k, m
<1>13. \A r \in Session : sess'[r].prev <= tokens'
  <2>1. \A r \in Session : sess'[r].prev \in Nat  BY <1>2, <1>6, <1>7
  <2> QED  BY <1>3, <1>9, <1>12, <2>1
<1> SUFFICES ASSUME ~mishap PROVE Turns'  BY <1>3, <1>13 DEF TurnInv
<1>14. Turns  BY DEF TurnInv
<1>15. \A u \in Tab \ {t} : at[u] \in Flight => mem[u].token # j
  BY <1>1, <1>14 DEF Turns, Apart, Flight, j
<1>16. NobodyBlamed'  BY <1>3, <1>4, <1>14 DEF Turns, NobodyBlamed
<1>17. Apart'  BY <1>4, <1>5, <1>14, <1>15 DEF Turns, Apart
<1>18. JarCurrent'
  <2> SUFFICES ASSUME NEW r \in Session, sess'[r].prev # 0, jar.token = sess'[r].prev
               PROVE  \E u \in Tab : at'[u] = "refresh.reply" /\ mem'[u].token = sess'[r].prev
    BY <1>3 DEF JarCurrent
  <2>1. CASE r = s  BY <1>4, <1>5, <1>6, <2>1
  <2>2. CASE r # s
    <3>1. PICK u \in Tab : at[u] = "refresh.reply" /\ mem[u].token = sess[r].prev
      BY <1>6, <1>14, <2>2 DEF Turns, JarCurrent
    <3> QED  BY <1>1, <1>4, <1>6, <2>2, <3>1
  <2> QED  BY <2>1, <2>2
<1>19. SentCurrent'
  <2> SUFFICES ASSUME NEW u \in Tab, at'[u] = "refresh.read", NEW r \in Session
               PROVE  mem'[u].token # sess'[r].prev
    BY DEF SentCurrent
  <2>1. u # t /\ at[u] = "refresh.read" /\ mem'[u] = mem[u]  BY <1>4
  <2>2. mem[u].token # j /\ mem[u].token # sess[r].prev
    BY <1>14, <1>15, <2>1 DEF Turns, SentCurrent, Flight
  <2> QED  BY <1>6, <2>1, <2>2
<1>20. AnswersNew'
  <2> SUFFICES ASSUME NEW u \in Tab, at'[u] \in Answer PROVE New(u)'  BY DEF AnswersNew
  <2>1. CASE u = t
    <3>1. \A r \in Session : sess'[r].prev # k  BY <1>7, <1>9, <1>2, <1>6, <1>12
    <3>2. \A v \in Tab : mem'[v].token # k
      <4> TAKE v \in Tab
      <4>1. mem[v].token \in Nat /\ mem[v].token < k  BY <1>10, TokenType, Numbers
      <4>2. j < k  BY <1>10 DEF j
      <4> QED  BY <1>2, <1>4, <1>5, <1>12, <4>1, <4>2
    <3>3. \A v \in Tab \ {t} : mem'[v].reply.token # k
      <4> TAKE v \in Tab \ {t}
      <4>1. mem[v].reply.token \in Nat  BY TokenType, Numbers DEF Cookie
      <4> QED  BY <1>4, <1>10, <1>12, <4>1
    <3>4. jar'.token # k
      <4>1. jar.token \in {0} \cup Token  BY DEF Inv, AuthTypeOK, Cookie
      <4>2. jar.token \in Nat  BY <4>1, Numbers
      <4> QED  BY <1>3, <1>11, <1>12, <4>2
    <3> QED  BY <1>4, <1>5, <1>12, <2>1, <3>1, <3>2, <3>3, <3>4 DEF New
  <2>2. CASE u # t
    <3>1. at[u] \in Answer /\ mem'[u] = mem[u]  BY <1>4, <2>2
    <3>2. New(u)  BY <1>14, <3>1 DEF Turns, AnswersNew
    <3>3. mem[u].reply.token # j  BY <1>1, <3>2 DEF New, Flight, j
    <3>4. \A r \in Session : mem[u].reply.token # sess'[r].prev  BY <1>6, <3>2, <3>3 DEF New
    <3>5. \A v \in Tab : at'[v] \in Flight => mem[u].reply.token # mem'[v].token
      BY <1>4, <1>5, <3>2, <3>3 DEF New
    <3>6. \A v \in Tab \ {u} : at'[v] \in Answer => mem[u].reply.token # mem'[v].reply.token
      <4> TAKE v \in Tab \ {u}
      <4> HAVE at'[v] \in Answer
      <4>1. mem[u].reply.token # k
        <5>1. mem[u].reply.token \in Nat  BY TokenType, Numbers DEF Cookie
        <5> QED  BY <1>10, <1>12, <5>1
      <4> QED  BY <1>4, <1>5, <3>2, <4>1 DEF New
    <3> QED  BY <1>3, <3>1, <3>2, <3>4, <3>5, <3>6 DEF New
  <2> QED  BY <2>1, <2>2
<1> QED  BY <1>16, <1>17, <1>18, <1>19, <1>20 DEF Turns

(* The answer that arrives brings a token that was never exchanged. *)
LEMMA TurnReceive == ASSUME Inv, TurnInv, NEW t \in Tab, Receive(t) PROVE TurnInv'
<1>1. at[t] \in Answer /\ jar' = mem[t].reply /\ UNCHANGED <<sess, tokens, blamed, mishap>>
  BY DEF Receive, Answer, rows, history
<1>2. at'[t] = "idle" /\ \A u \in Tab \ {t} : at'[u] = at[u] /\ mem'[u] = mem[u]
  BY Elsewhere DEF Receive, Finish
<1>3. \A s \in Session : sess'[s].prev <= tokens'  BY <1>1 DEF TurnInv
<1> SUFFICES ASSUME ~mishap PROVE Turns'  BY <1>1, <1>3 DEF TurnInv
<1>4. Turns /\ New(t)  BY <1>1 DEF TurnInv, Turns, AnswersNew
<1>5. NobodyBlamed'  BY <1>1, <1>2, <1>4 DEF Turns, NobodyBlamed
<1>6. Apart' /\ SentCurrent'  BY <1>1, <1>2, <1>4 DEF Turns, Apart, SentCurrent, Flight
<1>7. JarCurrent'  BY <1>1, <1>4 DEF JarCurrent, New
<1>8. AnswersNew'
  <2> SUFFICES ASSUME NEW u \in Tab, at'[u] \in Answer PROVE New(u)'  BY DEF AnswersNew
  <2>1. u # t /\ at[u] \in Answer /\ mem'[u] = mem[u]  BY <1>2 DEF Answer
  <2>2. New(u)  BY <1>4, <2>1 DEF Turns, AnswersNew
  <2>3. mem[u].reply.token # jar'.token  BY <1>1, <2>1, <2>2 DEF New
  <2>4. \A v \in Tab : at'[v] \in Flight \cup Answer => at'[v] = at[v] /\ mem'[v] = mem[v]
    BY <1>2 DEF Flight, Answer
  <2> QED  BY <1>1, <2>1, <2>2, <2>3, <2>4 DEF New
<1> QED  BY <1>5, <1>6, <1>7, <1>8 DEF Turns

(* A sign-in issues a token that is nowhere else, in a session that had none. *)
LEMMA TurnIssue == ASSUME Inv, TurnInv, NEW t \in Tab, Issue(t) PROVE TurnInv'
<1> DEFINE s == sessions + 1
           k == tokens + 1
           m == [Blank EXCEPT !.reply = Cookies(s, k)]
<1>1. at[t] = "issue" /\ s \in Session /\ k \in Nat /\ k # 0 /\ tokens \in Nat /\ k > tokens
  BY TokenType DEF Issue
<1>2. /\ sess' = [sess EXCEPT ![s] = [cur |-> k, prev |-> 0, revoked |-> FALSE, expires |-> now + Life]]
      /\ tokens' = k /\ UNCHANGED <<jar, blamed, mishap>>
  BY DEF Issue, history
<1>3. at'[t] = "reply" /\ mem'[t] = m /\ \A u \in Tab \ {t} : at'[u] = at[u] /\ mem'[u] = mem[u]
  <2>1. Goto(t, "reply") /\ Hold(t, m)  BY DEF Issue
  <2> HIDE DEF m
  <2> QED  BY <2>1, Elsewhere
<1>4. m.reply.token = k  BY DEF Blank, Cookies
<1>5. \A r \in Session : sess'[r].prev = sess[r].prev /\ sess[r].prev \in Nat /\ sess[r].prev < k
  <2>1. sess \in [Session -> SessionRow]  BY TokenType
  <2>2. sess[s].prev = 0  BY <1>1, TokenType DEF Inv, TokenInv, Issued, NoRow
  <2>3. \A r \in Session : sess[r].prev \in {0} \cup Token  BY <2>1 DEF SessionRow
  <2>4. \A r \in Session : sess[r].prev \in Nat /\ sess[r].prev <= tokens  BY <2>3, Numbers DEF TurnInv
  <2> QED  BY <1>1, <1>2, <2>1, <2>2, <2>4
<1>6. \A u \in Tab : mem[u].token # k /\ mem[u].reply.token # k
  <2> TAKE u \in Tab
  <2>1. mem[u].token \in Nat /\ mem[u].reply.token \in Nat  BY TokenType, Numbers DEF Cookie
  <2>2. mem[u].token <= tokens /\ mem[u].reply.token <= tokens  BY TokenType
  <2> QED  BY <1>1, <2>1, <2>2
<1>7. jar.token # k
  <2>1. jar.token \in {0} \cup Token  BY DEF Inv, AuthTypeOK, Cookie
  <2>2. jar.token \in Nat /\ jar.token <= tokens  BY <2>1, Numbers DEF Inv, TokenInv, Issued
  <2> QED  BY <1>1, <2>2
<1> HIDE DEF s, k, m
<1>8. \A r \in Session : sess'[r].prev <= tokens'  BY <1>1, <1>2, <1>5
<1> SUFFICES ASSUME ~mishap PROVE Turns'  BY <1>2, <1>8 DEF TurnInv
<1>9. Turns  BY DEF TurnInv
<1>10. NobodyBlamed'  BY <1>2, <1>3, <1>9 DEF Turns, NobodyBlamed
<1>11. \A u \in Tab : at'[u] \in Flight => at'[u] = at[u] /\ mem'[u] = mem[u]
  BY <1>3 DEF Flight
<1>12. Apart'  BY <1>9, <1>11 DEF Turns, Apart
<1>13. JarCurrent'
  <2>1. \A u \in Tab : at[u] = "refresh.reply" => at'[u] = at[u] /\ mem'[u] = mem[u]  BY <1>1, <1>3
  <2> QED  BY <1>2, <1>5, <1>9, <2>1 DEF Turns, JarCurrent
<1>14. SentCurrent'  BY <1>5, <1>9, <1>11 DEF Turns, SentCurrent, Flight
<1>15. AnswersNew'
  <2> SUFFICES ASSUME NEW u \in Tab, at'[u] \in Answer PROVE New(u)'  BY DEF AnswersNew
  <2>1. CASE u = t
    <3>1. \A r \in Session : sess'[r].prev # k  BY <1>1, <1>5
    <3> QED  BY <1>1, <1>2, <1>3, <1>4, <1>6, <1>7, <1>11, <2>1, <3>1 DEF New
  <2>2. CASE u # t
    <3>1. at[u] \in Answer /\ mem'[u] = mem[u]  BY <1>3, <2>2
    <3>2. New(u)  BY <1>9, <3>1 DEF Turns, AnswersNew
    <3>3. \A v \in Tab \ {u} : at'[v] \in Answer => mem[u].reply.token # mem'[v].reply.token
      BY <1>3, <1>4, <1>6, <3>2 DEF New
    <3> QED  BY <1>2, <1>5, <1>11, <3>1, <3>2, <3>3 DEF New
  <2> QED  BY <2>1, <2>2
<1> QED  BY <1>10, <1>12, <1>13, <1>14, <1>15 DEF Turns

(* The other steps of a sign-in, of a call and of a sign-out. *)
LEMMA TurnOther ==
  ASSUME Inv, TurnInv, NEW t \in Tab,
         \/ SignIn(t) /\ ~Issue(t)
         \/ Call(t) \/ RefreshEnded(t)
         \/ SignOut(t)
         \/ Fail(t)
  PROVE  TurnInv'
<1>1. tokens' = tokens /\ blamed' = blamed /\ (mishap => mishap') /\ (at[t] = "refresh.reply" => mishap')
      /\ (jar' = jar \/ jar' = NoJar)
  <2> DEFINE Quiet == /\ tokens' = tokens /\ blamed' = blamed /\ mishap' = mishap /\ at[t] # "refresh.reply"
                      /\ (jar' = jar \/ jar' = NoJar)
  <2>1. SignIn(t) /\ ~Issue(t) => Quiet
    BY DEF SignIn, Login, LoginRead, LoginRefused, LoginAccepted, Verify, VerifyRead, VerifyRefused,
           VerifyAccepted, Abandon, rows, history
  <2>2. Call(t) \/ RefreshEnded(t) => Quiet  BY DEF Call, RefreshEnded, rows, history
  <2>3. SignOut(t) => Quiet
    BY DEF SignOut, Logout, LogoutFound, LogoutNothing, LogoutWrite, LogoutReply, Revoke, RevokeWrite,
           rows, history
  <2>4. CASE Fail(t)  BY <2>4 DEF Fail, rows
  <2>5. CASE Quiet  BY <2>5
  <2> QED  BY <2>1, <2>2, <2>3, <2>4, <2>5
<1>2. \A s \in Session : sess'[s].prev = sess[s].prev
  <2>1. CASE sess' = sess  BY <2>1
  <2>2. CASE \E s \in Session : sess' = [sess EXCEPT ![s].revoked = TRUE]
    <3>1. PICK s \in Session : sess' = [sess EXCEPT ![s].revoked = TRUE]  BY <2>2
    <3>2. sess \in [Session -> SessionRow] /\ \A r \in Session : sess[r] \in SessionRow  BY TokenType
    <3> QED  BY <3>1, <3>2 DEF SessionRow
  <2>3. (LogoutWrite(t) \/ RevokeWrite(t)) => \E s \in Session : sess' = [sess EXCEPT ![s].revoked = TRUE]
    BY TokenType DEF LogoutWrite, RevokeWrite, Writing
  <2>4. CASE SignIn(t) /\ ~Issue(t)
    BY <2>1, <2>4 DEF SignIn, Login, LoginRead, LoginRefused, LoginAccepted, Verify, VerifyRead, VerifyRefused,
                VerifyAccepted, Abandon, rows, history
  <2>5. CASE Call(t) \/ RefreshEnded(t) \/ Fail(t)  BY <2>1, <2>5 DEF Call, RefreshEnded, Fail, rows
  <2>6. CASE SignOut(t)
    BY <2>1, <2>2, <2>3, <2>6 DEF SignOut, Logout, LogoutFound, LogoutNothing, LogoutReply, Revoke, rows
  <2> QED  BY <2>4, <2>5, <2>6
<1>3. PICK p \in Point \ (Flight \cup Answer) : Goto(t, p)
  <2>1. \A p \in {"idle", "login.read", "login.check", "challenged", "verify.read", "verify.check",
          "issue", "refresh.send", "logout.read", "logout.write", "logout.reply", "revoke.write"} :
          p \in Point \ (Flight \cup Answer)
    BY DEF Point, Flight, Answer
  <2>2. CASE SignIn(t) /\ ~Issue(t)
    BY <2>1, <2>2 DEF SignIn, Login, LoginRead, LoginRefused, LoginAccepted, Verify, VerifyRead, VerifyRefused,
                VerifyAccepted, Abandon, Finish
  <2>3. CASE Call(t) \/ RefreshEnded(t) \/ Fail(t)  BY <2>1, <2>3 DEF Call, RefreshEnded, Fail, Finish
  <2>4. CASE SignOut(t)
    BY <2>1, <2>4 DEF SignOut, Logout, LogoutFound, LogoutNothing, LogoutWrite, LogoutReply, Revoke, RevokeWrite,
                Finish
  <2> QED  BY <2>2, <2>3, <2>4
<1>4. at'[t] = p /\ \A u \in Tab \ {t} : at'[u] = at[u] /\ mem'[u] = mem[u]
  <2>1. at \in [Tab -> Point] /\ mem \in [Tab -> Memory]  BY DEF Inv, AuthTypeOK
  <2>2. mem' = mem \/ \E m : Hold(t, m)
    <3>1. CASE SignIn(t) /\ ~Issue(t)
      BY <3>1 DEF SignIn, Login, LoginRead, LoginRefused, LoginAccepted, Verify, VerifyRead, VerifyRefused,
                  VerifyAccepted, Abandon, Finish
    <3>2. CASE Call(t) \/ RefreshEnded(t) \/ Fail(t)  BY <3>2 DEF Call, RefreshEnded, Fail, Finish
    <3>3. CASE SignOut(t)
      BY <3>3 DEF SignOut, Logout, LogoutFound, LogoutNothing, LogoutWrite, LogoutReply, Revoke, RevokeWrite,
                  Finish
    <3> QED  BY <3>1, <3>2, <3>3
  <2> QED  BY <1>3, <2>1, <2>2 DEF Goto, Hold
<1> QED  BY <1>1, <1>2, <1>3, <1>4, TurnQuiet

(* Every step keeps it, *)
LEMMA NextTurn == Inv /\ TurnInv /\ [Next]_vars => TurnInv'
<1> SUFFICES ASSUME Inv, TurnInv, [Next]_vars PROVE TurnInv'  OBVIOUS
<1>1. CASE UNCHANGED <<sess, tokens, jar, at, mem, blamed, mishap>>
  BY <1>1 DEF TurnInv, Turns, NobodyBlamed, Apart, JarCurrent, SentCurrent, AnswersNew, New
<1>2. UNCHANGED vars \/ Tick => UNCHANGED <<sess, tokens, jar, at, mem, blamed, mishap>>
  BY DEF vars, Tick, rows, history
<1>3. ASSUME NEW t \in Tab, SignIn(t) \/ Refresh(t) \/ SignOut(t) \/ Fail(t) PROVE TurnInv'
  BY <1>3, TurnIssue, TurnSend, TurnRead, TurnRotate, TurnReuse, TurnReceive, TurnOther DEF Refresh
<1> QED  BY <1>1, <1>2, <1>3 DEF Next

(* A session is revoked for the reuse of a token only after a refresh was   *)
(* left without its answer or two refreshes carried one token              *)
(* (refresh_session, refreshApiSession), for any number of tabs: until then *)
(* the token that a tab sends was never exchanged.                         *)
THEOREM ReuseIsMishap == Spec => []ReuseMeansMishap
<1>1. Init => TurnInv
  <2> SUFFICES ASSUME Init PROVE TurnInv  OBVIOUS
  <2>1. \A s \in Session : sess[s].prev = 0 /\ 0 <= tokens  BY Numbers DEF Init, NoRow
  <2>2. NobodyBlamed /\ Apart /\ SentCurrent /\ AnswersNew
    BY DEF Init, NobodyBlamed, Apart, SentCurrent, AnswersNew, Flight, Answer
  <2>3. JarCurrent  BY <2>1 DEF JarCurrent
  <2> QED  BY <2>1, <2>2, <2>3 DEF TurnInv, Turns
<1>2. TurnInv => ReuseMeansMishap  BY DEF TurnInv, Turns, NobodyBlamed, ReuseMeansMishap
<1> QED  BY <1>1, <1>2, NextTurn, SpecInv, PTL DEF Spec
-----------------------------------------------------------------------------
(* Logouts that no refresh meets *)

(* The points of a request that carries a token and the session it means. *)
Carrying == Flight \cup {"logout.read", "logout.write"}

(* Whose the token k is: no session but s has it as its current one. *)
Names(k, s) == s \in Session /\ \A r \in Session : sess[r].cur = k => r = s

(* The cookies, the answers and the requests name the session they mean. *)
Named ==
  /\ jar.token # 0 => Names(jar.token, jar.sid)
  /\ \A t \in Tab : at[t] \in Answer => mem[t].reply.token # 0 /\ Names(mem[t].reply.token, mem[t].reply.sid)
  /\ \A t \in Tab : at[t] \in Carrying => Names(mem[t].token, mem[t].meant)

(* A token on its way to the browser is nowhere else. *)
Private ==
  /\ \A t \in Tab : at[t] \in Answer => mem[t].reply.token # jar.token
  /\ \A t, u \in Tab : at[t] \in Answer /\ at[u] \in Flight => mem[t].reply.token # mem[u].token
  /\ \A t, u \in Tab : at[t] \in Answer /\ at[u] \in Answer /\ mem[t].reply.token = mem[u].reply.token => t = u

(* Of a session that is alive and never went astray, an answer and a logout *)
(* carry the current token, and so do the cookies, but for a new one that  *)
(* is on its way to them.                                                  *)
Live(s) == s \notin astray /\ ~sess[s].revoked
Current ==
  /\ jar.token # 0 /\ Live(jar.sid) =>
       \/ sess[jar.sid].cur = jar.token
       \/ \E t \in Tab : at[t] = "refresh.reply" /\ mem[t].meant = jar.sid
  /\ \A t \in Tab : at[t] \in Answer /\ Live(mem[t].reply.sid) =>
       sess[mem[t].reply.sid].cur = mem[t].reply.token
  /\ \A t \in Tab : at[t] = "logout.read" /\ Live(mem[t].meant) =>
       sess[mem[t].meant].cur = mem[t].token

(* A refresh and a logout of one session meet only if it goes astray. *)
Meet ==
  /\ \A t, u \in Tab : at[t] = "logout.read" /\ at[u] \in Flight /\ mem[t].meant = mem[u].meant
       => mem[t].meant \in astray
  /\ \A t \in Tab : at[t] = "logout.write" => mem[t].row = mem[t].meant

Ended == \A s \in signedOut : s \in Session /\ (s \in astray \/ sess[s].revoked)

MeantInv == Named /\ Private /\ Current /\ Meet /\ Ended

(* The steps that leave the tokens of the sessions as they are and give the *)
(* tab no answer to wait for: what the tab carries afterwards must be as the *)
(* invariant has it.                                                        *)
LEMMA MeantFrame ==
  ASSUME MeantInv, NEW t \in Tab, \A u \in Tab \ {t} : at'[u] = at[u] /\ mem'[u] = mem[u],
         at'[t] \notin Answer,
         at[t] = "refresh.reply" => mem[t].meant \in astray',
         at'[t] \in Carrying => Names(mem[t].token, mem[t].meant)',
         at'[t] \in Flight => \A u \in Tab \ {t} :
           /\ at[u] \in Answer => mem[u].reply.token # mem'[t].token
           /\ at[u] = "logout.read" /\ mem[u].meant = mem'[t].meant => mem[u].meant \in astray',
         at'[t] = "logout.read" =>
           /\ Live(mem[t].meant)' => sess'[mem'[t].meant].cur = mem'[t].token
           /\ \A u \in Tab \ {t} : at[u] \in Flight /\ mem[u].meant = mem'[t].meant
                => mem[u].meant \in astray',
         at'[t] = "logout.write" => mem'[t].row = mem'[t].meant,
         jar' = jar \/ jar' = NoJar, astray \subseteq astray',
         \A s \in Session : sess'[s].cur = sess[s].cur /\ (sess[s].revoked => sess'[s].revoked),
         \A s \in signedOut' : s \in signedOut \/ (s \in Session /\ (s \in astray' \/ sess'[s].revoked))
  PROVE  MeantInv'
<1>1. \A u \in Tab : at'[u] \in Answer => u # t /\ at'[u] = at[u] /\ mem'[u] = mem[u]
  OBVIOUS
<1>2. /\ Flight \subseteq Carrying /\ {"logout.read", "logout.write"} \subseteq Carrying
      /\ "logout.read" \notin Flight /\ "refresh.reply" \in Answer
  BY DEF Carrying, Answer, Flight
<1>3. NoJar.token = 0  BY DEF NoJar
<1>4. \A k, s : Names(k, s) => Names(k, s)'  BY DEF Names
<1>5. Named'
  <2>1. jar'.token # 0 => Names(jar.token, jar.sid)'  BY <1>3, <1>4 DEF MeantInv, Named
  <2>2. ASSUME NEW u \in Tab, at'[u] \in Answer
        PROVE  mem'[u].reply.token # 0 /\ Names(mem[u].reply.token, mem[u].reply.sid)'
    BY <1>1, <1>4, <2>2 DEF MeantInv, Named
  <2>3. ASSUME NEW u \in Tab, at'[u] \in Carrying PROVE Names(mem[u].token, mem[u].meant)'
    BY <1>4, <2>3 DEF MeantInv, Named
  <2> QED  BY <2>1, <2>2, <2>3 DEF Named
<1>6. Private'
  <2>1. ASSUME NEW u \in Tab, at'[u] \in Answer PROVE mem'[u].reply.token # jar'.token
    BY <1>1, <1>3, <2>1 DEF MeantInv, Named, Private
  <2>2. ASSUME NEW u \in Tab, NEW v \in Tab, at'[u] \in Answer, at'[v] \in Flight
        PROVE  mem'[u].reply.token # mem'[v].token
    <3>1. u # t /\ mem'[u] = mem[u] /\ at[u] \in Answer  BY <1>1, <2>2
    <3>2. CASE v = t  BY <2>2, <3>1, <3>2
    <3>3. CASE v # t  BY <2>2, <3>1, <3>3 DEF MeantInv, Private
    <3> QED  BY <3>2, <3>3
  <2>3. ASSUME NEW u \in Tab, NEW v \in Tab, at'[u] \in Answer, at'[v] \in Answer,
               mem'[u].reply.token = mem'[v].reply.token
        PROVE  u = v
    BY <1>1, <2>3 DEF MeantInv, Private
  <2> QED  BY <2>1, <2>2, <2>3 DEF Private
<1>7. \A s \in Session : Live(s)' => Live(s)  BY DEF Live
<1>8. Current'
  <2>1. ASSUME jar'.token # 0, Live(jar.sid)'
        PROVE  \/ sess'[jar'.sid].cur = jar'.token
               \/ \E u \in Tab : at'[u] = "refresh.reply" /\ mem'[u].meant = jar'.sid
    <3>1. jar' = jar /\ jar.sid \in Session /\ Live(jar.sid)
      BY <1>3, <1>7, <2>1 DEF MeantInv, Named, Names
    <3>2. CASE sess[jar.sid].cur = jar.token  BY <3>1, <3>2
    <3>3. CASE \E u \in Tab : at[u] = "refresh.reply" /\ mem[u].meant = jar.sid
      <4>1. PICK u \in Tab : at[u] = "refresh.reply" /\ mem[u].meant = jar.sid  BY <3>3
      <4>2. u # t  BY <2>1, <3>1, <4>1 DEF Live
      <4> QED  BY <3>1, <4>1, <4>2
    <3> QED  BY <2>1, <3>1, <3>2, <3>3 DEF MeantInv, Current
  <2>2. ASSUME NEW u \in Tab, at'[u] \in Answer, Live(mem[u].reply.sid)'
        PROVE  sess'[mem'[u].reply.sid].cur = mem'[u].reply.token
    BY <1>1, <1>7, <2>2 DEF MeantInv, Named, Names, Current
  <2>3. ASSUME NEW u \in Tab, at'[u] = "logout.read", Live(mem[u].meant)'
        PROVE  sess'[mem'[u].meant].cur = mem'[u].token
    <3>1. CASE u = t  BY <2>3, <3>1
    <3>2. CASE u # t
      BY <1>2, <1>7, <2>3, <3>2 DEF MeantInv, Named, Names, Current
    <3> QED  BY <3>1, <3>2
  <2> QED  BY <2>1, <2>2, <2>3 DEF Current
<1>9. Meet'
  <2>1. ASSUME NEW u \in Tab, NEW v \in Tab, at'[u] = "logout.read", at'[v] \in Flight,
               mem'[u].meant = mem'[v].meant
        PROVE  mem'[u].meant \in astray'
    <3>1. u # v  BY <1>2, <2>1
    <3>2. CASE u = t  BY <2>1, <3>1, <3>2
    <3>3. CASE v = t  BY <2>1, <3>1, <3>3
    <3>4. CASE u # t /\ v # t  BY <2>1, <3>4 DEF MeantInv, Meet
    <3> QED  BY <3>2, <3>3, <3>4
  <2>2. ASSUME NEW u \in Tab, at'[u] = "logout.write" PROVE mem'[u].row = mem'[u].meant
    BY <2>2 DEF MeantInv, Meet
  <2> QED  BY <2>1, <2>2 DEF Meet
<1>10. Ended'  BY DEF MeantInv, Ended
<1> QED  BY <1>5, <1>6, <1>8, <1>9, <1>10 DEF MeantInv

(* The steps after which the tab carries no token and awaits no answer, and *)
(* that at most revoke sessions.                                           *)
LEMMA MeantQuiet ==
  ASSUME MeantInv, NEW t \in Tab, \A u \in Tab \ {t} : at'[u] = at[u] /\ mem'[u] = mem[u],
         at'[t] \notin Carrying \cup Answer,
         at[t] = "refresh.reply" => mem[t].meant \in astray',
         jar' = jar \/ jar' = NoJar, astray \subseteq astray',
         \A s \in Session : sess'[s].cur = sess[s].cur /\ (sess[s].revoked => sess'[s].revoked),
         \A s \in signedOut' : s \in signedOut \/ (s \in Session /\ (s \in astray' \/ sess'[s].revoked))
  PROVE  MeantInv'
<1>1. at'[t] \notin Carrying /\ at'[t] \notin Flight /\ at'[t] \notin {"logout.read", "logout.write"}
  BY DEF Carrying
<1> QED  BY <1>1, MeantFrame

(* The tokens that are known so far are older than the next one. *)
LEMMA Older ==
  ASSUME Inv
  PROVE  /\ tokens \in Nat /\ tokens + 1 # 0
         /\ jar.token # tokens + 1
         /\ \A u \in Tab : mem[u].token # tokens + 1 /\ mem[u].reply.token # tokens + 1
         /\ \A s \in Session : sess[s].cur # tokens + 1
<1>1. tokens \in Nat
  <2>1. tokens \in {0} \cup Token  BY DEF Inv, AuthTypeOK
  <2> QED  BY <2>1, Numbers
<1>2. jar.token # tokens + 1
  <2>1. jar.token \in {0} \cup Token  BY DEF Inv, AuthTypeOK, Cookie
  <2>2. jar.token \in Nat /\ jar.token <= tokens  BY <2>1, Numbers DEF Inv, TokenInv, Issued
  <2> QED  BY <1>1, <2>2
<1>3. ASSUME NEW u \in Tab PROVE mem[u].token # tokens + 1 /\ mem[u].reply.token # tokens + 1
  <2>1. mem[u].token \in Nat /\ mem[u].reply.token \in Nat  BY TokenType, Numbers DEF Cookie
  <2>2. mem[u].token <= tokens /\ mem[u].reply.token <= tokens  BY TokenType
  <2> QED  BY <1>1, <2>1, <2>2
<1>4. ASSUME NEW s \in Session PROVE sess[s].cur # tokens + 1
  <2>1. sess \in [Session -> SessionRow]  BY DEF Inv, AuthTypeOK
  <2>2. sess[s].cur \in {0} \cup Token  BY <2>1 DEF SessionRow
  <2>3. sess[s].cur \in Nat /\ sess[s].cur <= tokens  BY <2>2, Numbers DEF Inv, TokenInv, Issued
  <2> QED  BY <1>1, <2>3
<1> QED  BY <1>1, <1>2, <1>3, <1>4

(* A step that gives the token k to a session that had the token j: who was *)
(* named is named still, and who is alive was alive.                       *)
LEMMA Replaced ==
  ASSUME Inv, NEW s \in Session, NEW j, NEW k, k = tokens + 1,
         sess[s].cur = j, ~sess[s].revoked, sess'[s].cur = k, ~sess'[s].revoked,
         \A r \in Session \ {s} : sess'[r] = sess[r], astray' = astray
  PROVE  /\ Names(k, s)'
         /\ \A i, x : i # k /\ Names(i, x) => Names(i, x)'
         /\ \A r \in Session : Live(r)' => Live(r)
<1>1. \A r \in Session : sess[r].cur # k  BY Older
<1>2. Names(k, s)'  BY <1>1 DEF Names
<1>3. \A i, x : i # k /\ Names(i, x) => Names(i, x)'  BY DEF Names
<1>4. \A r \in Session : Live(r)' => Live(r)  BY DEF Live
<1> QED  BY <1>2, <1>3, <1>4

(* A sign-in names its own session, which nobody has named before. *)
LEMMA MeantIssue == ASSUME Inv, MeantInv, NEW t \in Tab, Issue(t) PROVE MeantInv'
<1> PICK s, k : s = sessions + 1 /\ k = tokens + 1  OBVIOUS
<1> DEFINE m == [Blank EXCEPT !.reply = Cookies(s, k)]
<1>1. at[t] = "issue" /\ s \in Session  BY DEF Issue
<1>2. /\ sess' = [sess EXCEPT ![s] = [cur |-> k, prev |-> 0, revoked |-> FALSE, expires |-> now + Life]]
      /\ tokens' = k /\ UNCHANGED <<jar, signedOut, astray>>
  BY DEF Issue, history
<1>3. at'[t] = "reply" /\ mem'[t] = m /\ \A u \in Tab \ {t} : at'[u] = at[u] /\ mem'[u] = mem[u]
  <2>1. Goto(t, "reply") /\ Hold(t, m)  BY DEF Issue
  <2> HIDE DEF m
  <2> QED  BY <2>1, Elsewhere
<1>4. m.reply.token = k /\ m.reply.sid = s  BY DEF Blank, Cookies
<1>5. sess[s].cur = 0 /\ ~sess[s].revoked
  BY <1>1, TokenType DEF Inv, TokenInv, Issued, NoRow
<1>6. /\ sess'[s].cur = k /\ ~sess'[s].revoked
      /\ \A r \in Session \ {s} : sess'[r] = sess[r]
  BY <1>1, <1>2, TokenType
<1>7. /\ k # 0 /\ jar.token # k
      /\ \A u \in Tab : mem[u].token # k /\ mem[u].reply.token # k
  BY Older
<1>8. k = tokens + 1  OBVIOUS
<1> HIDE DEF m
<1>9. /\ Names(k, s)'
      /\ \A i, x : i # k /\ Names(i, x) => Names(i, x)'
      /\ \A r \in Session : Live(r)' => Live(r)
  BY <1>1, <1>2, <1>5, <1>6, <1>8, Replaced
<1>10. \A u \in Tab : at'[u] \in Carrying => u # t /\ at'[u] = at[u] /\ mem'[u] = mem[u]
  BY <1>3 DEF Carrying, Flight
<1>11. \A u \in Tab : at'[u] \in Answer /\ u # t => at[u] \in Answer /\ mem'[u] = mem[u]
  BY <1>3
<1>12. Flight \subseteq Carrying /\ {"logout.read", "logout.write"} \subseteq Carrying
  BY DEF Carrying
<1>13. Named'
  <2>1. jar'.token # 0 => Names(jar.token, jar.sid)'  BY <1>2, <1>7, <1>9 DEF MeantInv, Named
  <2>2. ASSUME NEW u \in Tab, at'[u] \in Answer
        PROVE  mem'[u].reply.token # 0 /\ Names(mem[u].reply.token, mem[u].reply.sid)'
    BY <1>3, <1>4, <1>7, <1>9, <1>11, <2>2 DEF MeantInv, Named
  <2>3. ASSUME NEW u \in Tab, at'[u] \in Carrying PROVE Names(mem[u].token, mem[u].meant)'
    BY <1>7, <1>9, <1>10, <2>3 DEF MeantInv, Named
  <2> QED  BY <2>1, <2>2, <2>3 DEF Named
<1>14. Private'
  <2>1. ASSUME NEW u \in Tab, at'[u] \in Answer PROVE mem'[u].reply.token # jar'.token
    BY <1>2, <1>3, <1>4, <1>7, <1>11, <2>1 DEF MeantInv, Private
  <2>2. ASSUME NEW u \in Tab, NEW v \in Tab, at'[u] \in Answer, at'[v] \in Flight
        PROVE  mem'[u].reply.token # mem'[v].token
    BY <1>3, <1>4, <1>7, <1>10, <1>11, <1>12, <2>2 DEF MeantInv, Private
  <2>3. ASSUME NEW u \in Tab, NEW v \in Tab, at'[u] \in Answer, at'[v] \in Answer,
               mem'[u].reply.token = mem'[v].reply.token
        PROVE  u = v
    BY <1>3, <1>4, <1>7, <1>11, <2>3 DEF MeantInv, Private
  <2> QED  BY <2>1, <2>2, <2>3 DEF Private
<1>15. Current'
  <2>1. ASSUME jar'.token # 0, Live(jar.sid)'
        PROVE  \/ sess'[jar'.sid].cur = jar'.token
               \/ \E u \in Tab : at'[u] = "refresh.reply" /\ mem'[u].meant = jar'.sid
    <3>1. jar.sid \in Session /\ Live(jar.sid) /\ jar.token # 0
      BY <1>2, <1>9, <2>1 DEF MeantInv, Named, Names
    <3>2. CASE sess[jar.sid].cur = jar.token  BY <1>2, <1>5, <1>6, <3>1, <3>2
    <3>3. CASE \E u \in Tab : at[u] = "refresh.reply" /\ mem[u].meant = jar.sid
      BY <1>1, <1>2, <1>3, <3>3
    <3> QED  BY <3>1, <3>2, <3>3 DEF MeantInv, Current
  <2>2. ASSUME NEW u \in Tab, at'[u] \in Answer, Live(mem[u].reply.sid)'
        PROVE  sess'[mem'[u].reply.sid].cur = mem'[u].reply.token
    <3>1. CASE u = t  BY <1>3, <1>4, <1>6, <3>1
    <3>2. CASE u # t
      <4>1. mem[u].reply.sid \in Session /\ mem[u].reply.token # 0 /\ mem'[u] = mem[u] /\ at[u] \in Answer
        BY <1>11, <2>2, <3>2 DEF MeantInv, Named, Names
      <4>2. Live(mem[u].reply.sid)  BY <1>9, <2>2, <4>1 
      <4>3. sess[mem[u].reply.sid].cur = mem[u].reply.token  BY <4>1, <4>2 DEF MeantInv, Current
      <4> QED  BY <1>5, <1>6, <4>1, <4>3
    <3> QED  BY <3>1, <3>2
  <2>3. ASSUME NEW u \in Tab, at'[u] = "logout.read", Live(mem[u].meant)'
        PROVE  sess'[mem'[u].meant].cur = mem'[u].token
    <3>1. mem'[u] = mem[u] /\ at[u] = "logout.read" /\ mem[u].token # 0 /\ mem[u].meant \in Session
      BY <1>10, <1>12, <2>3 DEF MeantInv, Named, Names, Inv, TokenInv, RowHeld
    <3>2. Live(mem[u].meant)  BY <1>9, <2>3, <3>1
    <3>3. sess[mem[u].meant].cur = mem[u].token  BY <3>1, <3>2 DEF MeantInv, Current
    <3> QED  BY <1>5, <1>6, <3>1, <3>3
  <2> QED  BY <2>1, <2>2, <2>3 DEF Current
<1>16. Meet'
  <2>1. ASSUME NEW u \in Tab, NEW v \in Tab, at'[u] = "logout.read", at'[v] \in Flight,
               mem'[u].meant = mem'[v].meant
        PROVE  mem'[u].meant \in astray'
    BY <1>2, <1>10, <1>12, <2>1 DEF MeantInv, Meet
  <2>2. ASSUME NEW u \in Tab, at'[u] = "logout.write" PROVE mem'[u].row = mem'[u].meant
    BY <1>10, <1>12, <2>2 DEF MeantInv, Meet
  <2> QED  BY <2>1, <2>2 DEF Meet
<1>17. Ended'  BY <1>2, <1>5, <1>6 DEF MeantInv, Ended
<1> QED  BY <1>13, <1>14, <1>15, <1>16, <1>17 DEF MeantInv

(* A refresh is sent with the cookies, which name its session. *)
LEMMA MeantSend == ASSUME Inv, MeantInv, NEW t \in Tab, RefreshSend(t) PROVE MeantInv'
<1>1. at[t] = "refresh.send" /\ UNCHANGED <<sess, jar, signedOut>>  BY DEF RefreshSend, rows
<1>2. CASE jar.token = 0 /\ Finish(t) /\ UNCHANGED <<mishap, astray>>
  <2>1. at'[t] = "idle" /\ \A u \in Tab \ {t} : at'[u] = at[u] /\ mem'[u] = mem[u]
    BY <1>2, Elsewhere DEF Finish
  <2>2. at'[t] \notin Carrying \cup Answer  BY <2>1 DEF Carrying, Flight, Answer
  <2> QED  BY <1>1, <1>2, <2>1, <2>2, MeantQuiet
<1>3. CASE /\ jar.token # 0 /\ Goto(t, "refresh.read")
           /\ Hold(t, [Blank EXCEPT !.token = jar.token, !.meant = jar.sid])
           /\ astray' = astray \cup {s \in {jar.sid} : SigningOut(s)}
  <2>1. /\ at'[t] = "refresh.read" /\ mem'[t].token = jar.token /\ mem'[t].meant = jar.sid
        /\ \A u \in Tab \ {t} : at'[u] = at[u] /\ mem'[u] = mem[u]
    <3> DEFINE m == [Blank EXCEPT !.token = jar.token, !.meant = jar.sid]
    <3>1. m.token = jar.token /\ m.meant = jar.sid /\ Goto(t, "refresh.read") /\ Hold(t, m)
      BY <1>3 DEF Blank
    <3> HIDE DEF m
    <3> QED  BY <3>1, Elsewhere
  <2>2. at'[t] \notin Answer /\ at'[t] \notin {"logout.read", "logout.write"}  BY <2>1 DEF Answer
  <2>3. Names(mem[t].token, mem[t].meant)'  BY <1>1, <1>3, <2>1 DEF MeantInv, Named, Names
  <2>4. ASSUME NEW u \in Tab \ {t}
        PROVE  /\ at[u] \in Answer => mem[u].reply.token # mem'[t].token
               /\ at[u] = "logout.read" /\ mem[u].meant = mem'[t].meant => mem[u].meant \in astray'
    <3>1. at[u] \in Answer => mem[u].reply.token # mem'[t].token  BY <2>1 DEF MeantInv, Private
    <3>2. at[u] = "logout.read" /\ mem[u].meant = jar.sid => jar.sid \in astray'
      BY <1>3 DEF SigningOut
    <3> QED  BY <2>1, <3>1, <3>2
  <2>5. astray \subseteq astray'  BY <1>3
  <2> QED  BY <1>1, <2>1, <2>2, <2>3, <2>4, <2>5, MeantFrame
<1> QED  BY <1>2, <1>3 DEF RefreshSend

(* A read of a refresh or of a logout: the tab keeps what it carries. *)
LEMMA MeantCarries ==
  ASSUME Inv, MeantInv, NEW t \in Tab, NEW s \in Session, NEW p,
         Goto(t, p), Hold(t, [mem[t] EXCEPT !.row = s]), UNCHANGED <<sess, jar, signedOut, astray>>,
         \/ at[t] = "refresh.read" /\ p \in {"refresh.rotate", "refresh.reuse"}
         \/ at[t] = "logout.read" /\ p = "logout.write" /\ sess[s].cur = mem[t].token
  PROVE  MeantInv'
<1>1. /\ at'[t] = p /\ mem'[t].token = mem[t].token /\ mem'[t].meant = mem[t].meant /\ mem'[t].row = s
      /\ \A u \in Tab \ {t} : at'[u] = at[u] /\ mem'[u] = mem[u]
  <2> DEFINE m == [mem[t] EXCEPT !.row = s]
  <2>1. m.token = mem[t].token /\ m.meant = mem[t].meant /\ m.row = s  BY TokenType DEF Memory
  <2>2. Hold(t, m)  OBVIOUS
  <2> HIDE DEF m
  <2> QED  BY <2>1, <2>2, Elsewhere
<1>2. at[t] \in Carrying /\ at'[t] \notin Answer /\ at'[t] # "logout.read" /\ at[t] # "refresh.reply"
  BY <1>1 DEF Carrying, Flight, Answer
<1>3. Names(mem[t].token, mem[t].meant)  BY <1>2 DEF MeantInv, Named
<1>4. Names(mem[t].token, mem[t].meant)'  BY <1>1, <1>3 DEF Names
<1>5. at'[t] \in Flight => at[t] \in Flight  BY <1>1 DEF Flight
<1>6. at'[t] \in Flight => \A u \in Tab \ {t} :
           /\ at[u] \in Answer => mem[u].reply.token # mem'[t].token
           /\ at[u] = "logout.read" /\ mem[u].meant = mem'[t].meant => mem[u].meant \in astray'
  BY <1>1, <1>5 DEF MeantInv, Private, Meet
<1>7. at'[t] = "logout.write" => mem'[t].row = mem'[t].meant
  <2>1. at'[t] = "logout.write" => sess[s].cur = mem[t].token  BY <1>1
  <2> QED  BY <1>1, <1>3, <2>1 DEF Names
<1> QED  BY <1>1, <1>2, <1>4, <1>6, <1>7, MeantFrame

(* The new token goes to the session that the refresh meant; whoever else  *)
(* carries the old one is a refresh, or a logout that has gone astray.      *)
LEMMA MeantRotate == ASSUME Inv, MeantInv, NEW t \in Tab, RefreshRotate(t) PROVE MeantInv'
<1> PICK k : k = tokens + 1  OBVIOUS
<1> PICK s : s = mem[t].row  OBVIOUS
<1> PICK j : j = mem[t].token  OBVIOUS
<1> DEFINE m == [mem[t] EXCEPT !.reply = Cookies(s, k)]
<1>1. at[t] = "refresh.rotate" /\ s \in Session  BY TokenType DEF RefreshRotate, Writing
<1>2. sess[s].cur = j /\ ~sess[s].revoked  BY <1>1 DEF Inv, TokenInv, RowHeld
<1>3. sess' = [sess EXCEPT ![s] = Rotated(@, k)] /\ UNCHANGED <<jar, signedOut, astray>>
  BY DEF RefreshRotate
<1>4. at'[t] = "refresh.reply" /\ mem'[t] = m /\ \A u \in Tab \ {t} : at'[u] = at[u] /\ mem'[u] = mem[u]
  <2>1. Goto(t, "refresh.reply") /\ Hold(t, m)  BY DEF RefreshRotate
  <2> HIDE DEF m
  <2> QED  BY <2>1, Elsewhere
<1>5. m.token = j /\ m.meant = mem[t].meant /\ m.reply.token = k /\ m.reply.sid = s
  BY TokenType DEF Memory, Cookies
<1>6. /\ sess'[s].cur = k /\ ~sess'[s].revoked
      /\ \A r \in Session \ {s} : sess'[r] = sess[r]
  <2>1. sess \in [Session -> SessionRow] /\ sess[s] \in SessionRow  BY <1>1, TokenType
  <2>2. Rotated(sess[s], k).cur = k /\ Rotated(sess[s], k).revoked = sess[s].revoked
    BY <2>1 DEF SessionRow, Rotated
  <2> QED  BY <1>1, <1>2, <1>3, <2>1, <2>2
<1>7. /\ k # 0 /\ jar.token # k
      /\ \A u \in Tab : mem[u].token # k /\ mem[u].reply.token # k
  BY Older
<1> HIDE DEF m
<1>8. Flight \subseteq Carrying /\ {"logout.read", "logout.write"} \subseteq Carrying
      /\ "refresh.rotate" \in Flight /\ "refresh.reply" \in Answer
      /\ "refresh.reply" \notin {"logout.read", "logout.write"}
  BY DEF Carrying, Flight, Answer
<1>9. mem[t].meant = s  BY <1>1, <1>2, <1>8 DEF MeantInv, Named, Names
<1>10. /\ Names(k, s)'
       /\ \A i, x : i # k /\ Names(i, x) => Names(i, x)'
       /\ \A r \in Session : Live(r)' => Live(r)
  BY <1>1, <1>2, <1>3, <1>6, Replaced
<1>11. \A u \in Tab : at'[u] \in Carrying => at[u] \in Carrying
                       /\ mem'[u].token = mem[u].token /\ mem'[u].meant = mem[u].meant
  BY <1>1, <1>4, <1>5, <1>8
<1>12. \A u \in Tab : at'[u] \in Answer /\ u # t => at[u] \in Answer /\ mem'[u] = mem[u]
  BY <1>4
<1>13. Named'
  <2>1. jar'.token # 0 => Names(jar.token, jar.sid)'  BY <1>3, <1>7, <1>10 DEF MeantInv, Named
  <2>2. ASSUME NEW u \in Tab, at'[u] \in Answer
        PROVE  mem'[u].reply.token # 0 /\ Names(mem[u].reply.token, mem[u].reply.sid)'
    BY <1>4, <1>5, <1>7, <1>10, <1>12, <2>2 DEF MeantInv, Named
  <2>3. ASSUME NEW u \in Tab, at'[u] \in Carrying PROVE Names(mem[u].token, mem[u].meant)'
    BY <1>7, <1>10, <1>11, <2>3 DEF MeantInv, Named
  <2> QED  BY <2>1, <2>2, <2>3 DEF Named
<1>14. Private'
  <2>1. ASSUME NEW u \in Tab, at'[u] \in Answer PROVE mem'[u].reply.token # jar'.token
    BY <1>3, <1>4, <1>5, <1>7, <1>12, <2>1 DEF MeantInv, Private
  <2>2. ASSUME NEW u \in Tab, NEW v \in Tab, at'[u] \in Answer, at'[v] \in Flight
        PROVE  mem'[u].reply.token # mem'[v].token
    <3>1. at[v] \in Flight /\ mem'[v].token = mem[v].token  BY <1>1, <1>4, <1>5, <1>8, <2>2
    <3>2. CASE u = t  BY <1>4, <1>5, <1>7, <3>1, <3>2
    <3>3. CASE u # t  BY <1>12, <2>2, <3>1, <3>3 DEF MeantInv, Private
    <3> QED  BY <3>2, <3>3
  <2>3. ASSUME NEW u \in Tab, NEW v \in Tab, at'[u] \in Answer, at'[v] \in Answer,
               mem'[u].reply.token = mem'[v].reply.token
        PROVE  u = v
    BY <1>4, <1>5, <1>7, <1>12, <2>3 DEF MeantInv, Private
  <2> QED  BY <2>1, <2>2, <2>3 DEF Private
<1>15. Current'
  <2>1. ASSUME jar'.token # 0, Live(jar.sid)'
        PROVE  \/ sess'[jar'.sid].cur = jar'.token
               \/ \E u \in Tab : at'[u] = "refresh.reply" /\ mem'[u].meant = jar'.sid
    <3>1. jar' = jar /\ jar.sid \in Session /\ Live(jar.sid) /\ jar.token # 0
      BY <1>3, <1>10, <2>1 DEF MeantInv, Named, Names
    <3>2. CASE jar.sid = s  BY <1>4, <1>5, <1>9, <3>1, <3>2
    <3>3. CASE jar.sid # s
      <4>1. CASE sess[jar.sid].cur = jar.token  BY <1>6, <3>1, <3>3, <4>1
      <4>2. CASE \E u \in Tab : at[u] = "refresh.reply" /\ mem[u].meant = jar.sid
        BY <1>1, <1>4, <3>1, <4>2
      <4> QED  BY <3>1, <4>1, <4>2 DEF MeantInv, Current
    <3> QED  BY <3>2, <3>3
  <2>2. ASSUME NEW u \in Tab, at'[u] \in Answer, Live(mem[u].reply.sid)'
        PROVE  sess'[mem'[u].reply.sid].cur = mem'[u].reply.token
    <3>1. CASE u = t  BY <1>4, <1>5, <1>6, <3>1
    <3>2. CASE u # t
      <4>1. mem[u].reply.sid \in Session /\ mem[u].reply.token # 0 /\ mem'[u] = mem[u] /\ at[u] \in Answer
        BY <1>12, <2>2, <3>2 DEF MeantInv, Named, Names
      <4>2. Live(mem[u].reply.sid)  BY <1>10, <2>2, <4>1
      <4>3. sess[mem[u].reply.sid].cur = mem[u].reply.token  BY <4>1, <4>2 DEF MeantInv, Current
      <4>4. mem[u].reply.token # j  BY <1>1, <1>8, <4>1 DEF MeantInv, Private
      <4> QED  BY <1>2, <1>6, <4>1, <4>3, <4>4
    <3> QED  BY <3>1, <3>2
  <2>3. ASSUME NEW u \in Tab, at'[u] = "logout.read", Live(mem[u].meant)'
        PROVE  sess'[mem'[u].meant].cur = mem'[u].token
    <3>1. u # t /\ mem'[u] = mem[u] /\ at[u] = "logout.read"  BY <1>4, <1>8, <2>3
    <3>2. mem[u].meant \in Session  BY <1>8, <3>1 DEF MeantInv, Named, Names
    <3>3. Live(mem[u].meant)  BY <1>10, <2>3, <3>1, <3>2
    <3>4. sess[mem[u].meant].cur = mem[u].token  BY <3>1, <3>3 DEF MeantInv, Current
    <3>5. mem[u].meant # s  BY <1>1, <1>8, <1>9, <3>1, <3>3 DEF MeantInv, Meet, Live
    <3> QED  BY <1>6, <3>1, <3>2, <3>4, <3>5
  <2> QED  BY <2>1, <2>2, <2>3 DEF Current
<1>16. Meet'
  <2>1. ASSUME NEW u \in Tab, NEW v \in Tab, at'[u] = "logout.read", at'[v] \in Flight,
               mem'[u].meant = mem'[v].meant
        PROVE  mem'[u].meant \in astray'
    <3>1. at[u] = "logout.read" /\ mem'[u] = mem[u]  BY <1>4, <1>8, <2>1
    <3>2. at[v] \in Flight /\ mem'[v].meant = mem[v].meant  BY <1>1, <1>4, <1>5, <1>8, <2>1
    <3> QED  BY <1>3, <2>1, <3>1, <3>2 DEF MeantInv, Meet
  <2>2. ASSUME NEW u \in Tab, at'[u] = "logout.write" PROVE mem'[u].row = mem'[u].meant
    BY <1>4, <1>8, <2>2 DEF MeantInv, Meet
  <2> QED  BY <2>1, <2>2 DEF Meet
<1>17. Ended'  BY <1>2, <1>3, <1>6 DEF MeantInv, Ended
<1> QED  BY <1>13, <1>14, <1>15, <1>16, <1>17 DEF MeantInv

(* An answer that arrives: its token moves to the cookies. *)
LEMMA MeantReceive == ASSUME Inv, MeantInv, NEW t \in Tab, Receive(t) PROVE MeantInv'
<1>1. at[t] \in Answer /\ jar' = mem[t].reply /\ UNCHANGED <<sess, signedOut, astray>>
  BY DEF Receive, Answer, rows, history
<1>2. at'[t] = "idle" /\ \A u \in Tab \ {t} : at'[u] = at[u] /\ mem'[u] = mem[u]
  BY Elsewhere DEF Receive, Finish
<1>3. \A u \in Tab : at'[u] \in Carrying \cup Answer => u # t /\ at'[u] = at[u] /\ mem'[u] = mem[u]
  BY <1>2 DEF Carrying, Flight, Answer
<1>4. Flight \subseteq Carrying /\ {"logout.read", "logout.write"} \subseteq Carrying
  BY DEF Carrying
<1>5. \A k, s : Names(k, s) => Names(k, s)'  BY <1>1 DEF Names
<1>6. Named'
  <2>1. jar'.token # 0 => Names(jar.token, jar.sid)'  BY <1>1, <1>5 DEF MeantInv, Named
  <2>2. ASSUME NEW u \in Tab, at'[u] \in Answer
        PROVE  mem'[u].reply.token # 0 /\ Names(mem[u].reply.token, mem[u].reply.sid)'
    BY <1>3, <1>5, <2>2 DEF MeantInv, Named
  <2>3. ASSUME NEW u \in Tab, at'[u] \in Carrying PROVE Names(mem[u].token, mem[u].meant)'
    BY <1>3, <1>5, <2>3 DEF MeantInv, Named
  <2> QED  BY <2>1, <2>2, <2>3 DEF Named
<1>7. Private'
  <2>1. ASSUME NEW u \in Tab, at'[u] \in Answer PROVE mem'[u].reply.token # jar'.token
    BY <1>1, <1>3, <2>1 DEF MeantInv, Private
  <2>2. ASSUME NEW u \in Tab, NEW v \in Tab, at'[u] \in Answer, at'[v] \in Flight
        PROVE  mem'[u].reply.token # mem'[v].token
    BY <1>3, <1>4, <2>2 DEF MeantInv, Private
  <2>3. ASSUME NEW u \in Tab, NEW v \in Tab, at'[u] \in Answer, at'[v] \in Answer,
               mem'[u].reply.token = mem'[v].reply.token
        PROVE  u = v
    BY <1>3, <2>3 DEF MeantInv, Private
  <2> QED  BY <2>1, <2>2, <2>3 DEF Private
<1>9. Current'
  <2>1. ASSUME jar'.token # 0, Live(jar.sid)' PROVE sess'[jar'.sid].cur = jar'.token
    <3>1. Live(mem[t].reply.sid)  BY <1>1, <2>1 DEF Live
    <3> QED  BY <1>1, <3>1 DEF MeantInv, Current
  <2>2. ASSUME NEW u \in Tab, at'[u] \in Answer, Live(mem[u].reply.sid)'
        PROVE  sess'[mem'[u].reply.sid].cur = mem'[u].reply.token
    BY <1>1, <1>3, <2>2 DEF MeantInv, Current, Live
  <2>3. ASSUME NEW u \in Tab, at'[u] = "logout.read", Live(mem[u].meant)'
        PROVE  sess'[mem'[u].meant].cur = mem'[u].token
    BY <1>1, <1>3, <1>4, <2>3 DEF MeantInv, Current, Live
  <2> QED  BY <2>1, <2>2, <2>3 DEF Current
<1>10. Meet'
  <2>1. ASSUME NEW u \in Tab, NEW v \in Tab, at'[u] = "logout.read", at'[v] \in Flight,
               mem'[u].meant = mem'[v].meant
        PROVE  mem'[u].meant \in astray'
    BY <1>1, <1>3, <1>4, <2>1 DEF MeantInv, Meet
  <2>2. ASSUME NEW u \in Tab, at'[u] = "logout.write" PROVE mem'[u].row = mem'[u].meant
    BY <1>3, <1>4, <2>2 DEF MeantInv, Meet
  <2> QED  BY <2>1, <2>2 DEF Meet
<1>11. Ended'  BY <1>1 DEF MeantInv, Ended
<1> QED  BY <1>6, <1>7, <1>9, <1>10, <1>11 DEF MeantInv

(* A logout is sent with the current token of its session, unless a refresh *)
(* of the session is under way and the session goes astray.                 *)
LEMMA MeantLogout == ASSUME Inv, MeantInv, NEW t \in Tab, Logout(t) PROVE MeantInv'
<1>1. /\ at[t] = "idle" /\ jar.token # 0 /\ UNCHANGED <<sess, jar, signedOut>>
      /\ astray' = astray \cup {s \in {jar.sid} : Refreshing(s)}
  BY DEF Logout, rows
<1>2. /\ at'[t] = "logout.read" /\ mem'[t].token = jar.token /\ mem'[t].meant = jar.sid
      /\ \A u \in Tab \ {t} : at'[u] = at[u] /\ mem'[u] = mem[u]
  <2> DEFINE m == [Blank EXCEPT !.token = jar.token, !.meant = jar.sid]
  <2>1. m.token = jar.token /\ m.meant = jar.sid /\ Goto(t, "logout.read") /\ Hold(t, m)
    BY DEF Logout, Blank
  <2> HIDE DEF m
  <2> QED  BY <2>1, Elsewhere
<1>3. at'[t] \notin Answer /\ at'[t] \notin Flight /\ at'[t] # "logout.write"
  BY <1>2 DEF Answer, Flight
<1>4. Names(mem[t].token, mem[t].meant)'  BY <1>1, <1>2 DEF MeantInv, Named, Names
<1>5. ASSUME Live(mem[t].meant)' PROVE sess'[mem'[t].meant].cur = mem'[t].token
  <2>1. Live(jar.sid) /\ ~Refreshing(jar.sid)  BY <1>1, <1>2, <1>5 DEF Live
  <2>2. ~\E u \in Tab : at[u] = "refresh.reply" /\ mem[u].meant = jar.sid
    BY <2>1 DEF Refreshing, Flight
  <2> QED  BY <1>1, <1>2, <2>1, <2>2 DEF MeantInv, Current
<1>6. ASSUME NEW u \in Tab \ {t}, at[u] \in Flight, mem[u].meant = mem'[t].meant
      PROVE  mem[u].meant \in astray'
  BY <1>1, <1>2, <1>6 DEF Refreshing
<1>7. astray \subseteq astray'  BY <1>1
<1> QED  BY <1>1, <1>2, <1>3, <1>4, <1>5, <1>6, <1>7, MeantFrame

(* A revocation keeps the tokens of the sessions. *)
LEMMA TokensKept ==
  ASSUME Inv, NEW r \in Session, sess' = [sess EXCEPT ![r].revoked = TRUE]
  PROVE  \A s \in Session : sess'[s].cur = sess[s].cur /\ (sess[s].revoked => sess'[s].revoked)
<1>1. sess \in [Session -> SessionRow]  BY DEF Inv, AuthTypeOK
<1> QED  BY <1>1 DEF SessionRow

(* A logout is answered: its session is revoked, has gone astray, or is     *)
(* still found by the token.                                                *)
LEMMA MeantAnswered ==
  ASSUME Inv, MeantInv, NEW t \in Tab, LogoutNothing(t) \/ LogoutWrite(t)
  PROVE  MeantInv'
<1>1. /\ at'[t] = "logout.reply" /\ UNCHANGED <<mem, jar, astray>>
      /\ \A u \in Tab \ {t} : at'[u] = at[u]
      /\ signedOut' = signedOut \cup {mem[t].meant}
  BY DEF LogoutNothing, LogoutWrite, Goto, Inv, AuthTypeOK
<1>2. at[t] \in {"logout.read", "logout.write"} /\ at[t] # "refresh.reply"
  BY DEF LogoutNothing, LogoutWrite
<1>3. at'[t] \notin Carrying \cup Answer  BY <1>1 DEF Carrying, Flight, Answer
<1>4. Names(mem[t].token, mem[t].meant)  BY <1>2 DEF MeantInv, Named, Carrying
<1>5. mem[t].meant \in Session  BY <1>4 DEF Names
<1>6. CASE LogoutNothing(t)
  <2>1. at[t] = "logout.read" /\ sess' = sess  BY <1>6 DEF LogoutNothing, rows
  <2>2. Live(mem[t].meant) => sess[mem[t].meant].cur = mem[t].token
    BY <2>1 DEF MeantInv, Current
  <2>3. mem[t].meant \in astray \/ sess[mem[t].meant].revoked
    BY <1>5, <1>6, <2>2 DEF LogoutNothing, Owner, Live
  <2> QED  BY <1>1, <1>2, <1>3, <1>5, <2>1, <2>3, MeantQuiet
<1>7. CASE LogoutWrite(t)
  <2>1. mem[t].row = mem[t].meant /\ sess' = [sess EXCEPT ![mem[t].row].revoked = TRUE]
    BY <1>7 DEF LogoutWrite, MeantInv, Meet
  <2>2. \A s \in Session : sess'[s].cur = sess[s].cur /\ (sess[s].revoked => sess'[s].revoked)
    BY <1>5, <2>1, TokensKept
  <2>3. sess'[mem[t].meant].revoked
    <3>1. sess \in [Session -> SessionRow]  BY DEF Inv, AuthTypeOK
    <3> QED  BY <1>5, <2>1, <3>1 DEF SessionRow
  <2> QED  BY <1>1, <1>2, <1>3, <1>5, <2>2, <2>3, MeantQuiet
<1> QED  BY <1>6, <1>7

(* The other steps carry no token and give no answer. *)
LEMMA MeantOther ==
  ASSUME Inv, MeantInv, NEW t \in Tab,
         \/ SignIn(t) /\ ~Issue(t)
         \/ Call(t) \/ RefreshEnded(t) \/ RefreshReuse(t)
         \/ LogoutReply(t) \/ (\E s \in Session : Revoke(t, s)) \/ RevokeWrite(t)
         \/ Fail(t)
  PROVE  MeantInv'
<1> DEFINE Waiting == SignIn(t) /\ ~Issue(t)
           Bare == Call(t) \/ RefreshEnded(t) \/ LogoutReply(t) \/ \E s \in Session : Revoke(t, s)
           Ending == RefreshReuse(t) \/ RevokeWrite(t)
           Quiet == at[t] # "refresh.reply" /\ UNCHANGED <<signedOut, astray>> /\ (jar' = jar \/ jar' = NoJar)
<1>1. /\ astray \subseteq astray' /\ (at[t] = "refresh.reply" => mem[t].meant \in astray')
      /\ (jar' = jar \/ jar' = NoJar) /\ signedOut' = signedOut
  <2>1. Waiting => Quiet
    BY DEF SignIn, Login, LoginRead, LoginRefused, LoginAccepted, Verify, VerifyRead, VerifyRefused,
           VerifyAccepted, Abandon, rows, history
  <2>2. Bare => Quiet  BY DEF Call, RefreshEnded, LogoutReply, Revoke, rows, history
  <2>3. Ending => Quiet  BY DEF RefreshReuse, RevokeWrite, history
  <2>4. CASE Fail(t)  BY <2>4 DEF Fail, rows
  <2>5. CASE Quiet  BY <2>5
  <2> QED  BY <2>1, <2>2, <2>3, <2>4, <2>5
<1>2. \A s \in Session : sess'[s].cur = sess[s].cur /\ (sess[s].revoked => sess'[s].revoked)
  <2>1. CASE sess' = sess  BY <2>1
  <2>2. Waiting => sess' = sess
    BY DEF SignIn, Login, LoginRead, LoginRefused, LoginAccepted, Verify, VerifyRead, VerifyRefused,
           VerifyAccepted, Abandon, rows
  <2>3. Bare \/ Fail(t) => sess' = sess  BY DEF Call, RefreshEnded, LogoutReply, Revoke, Fail, rows
  <2>4. CASE Ending
    <3>1. mem[t].row \in Session /\ sess' = [sess EXCEPT ![mem[t].row].revoked = TRUE]
      BY <2>4, TokenType DEF RefreshReuse, RevokeWrite, Writing
    <3> QED  BY <3>1, TokensKept
  <2> QED  BY <2>1, <2>2, <2>3, <2>4
<1>3. PICK p \in {"idle", "login.read", "login.check", "challenged", "verify.read", "verify.check",
                  "issue", "refresh.send", "revoke.write"} :
        Goto(t, p) /\ (mem' = mem \/ \E m : Hold(t, m))
  <2>1. CASE Waiting
    BY <2>1 DEF SignIn, Login, LoginRead, LoginRefused, LoginAccepted, Verify, VerifyRead, VerifyRefused,
                VerifyAccepted, Abandon, Finish
  <2>2. CASE Bare \/ Fail(t)  BY <2>2 DEF Call, RefreshEnded, LogoutReply, Revoke, Fail, Finish
  <2>3. CASE Ending  BY <2>3 DEF RefreshReuse, RevokeWrite, Finish
  <2> QED  BY <2>1, <2>2, <2>3
<1>4. at'[t] = p /\ \A u \in Tab \ {t} : at'[u] = at[u] /\ mem'[u] = mem[u]
  <2>1. at \in [Tab -> Point] /\ mem \in [Tab -> Memory]  BY DEF Inv, AuthTypeOK
  <2> QED  BY <1>3, <2>1 DEF Goto, Hold
<1>5. at'[t] \notin Carrying \cup Answer  BY <1>3, <1>4 DEF Carrying, Flight, Answer
<1> QED  BY <1>1, <1>2, <1>4, <1>5, MeantQuiet

(* Every step keeps it, *)
LEMMA NextMeant == Inv /\ MeantInv /\ [Next]_vars => MeantInv'
<1> SUFFICES ASSUME Inv, MeantInv, [Next]_vars PROVE MeantInv'  OBVIOUS
<1>1. CASE UNCHANGED <<sess, jar, at, mem, signedOut, astray>>
  BY <1>1 DEF MeantInv, Named, Names, Private, Current, Live, Meet, Ended
<1>2. UNCHANGED vars \/ Tick => UNCHANGED <<sess, jar, at, mem, signedOut, astray>>
  BY DEF vars, Tick, rows, history
<1>3. ASSUME NEW t \in Tab, RefreshRead(t) PROVE MeantInv'
  <2>1. at[t] = "refresh.read" /\ UNCHANGED <<sess, jar, signedOut, astray>>
    BY <1>3 DEF RefreshRead, rows, history
  <2>2. PICK s \in Session, p \in {"refresh.rotate", "refresh.reuse"} :
          Goto(t, p) /\ Hold(t, [mem[t] EXCEPT !.row = s])
    BY <1>3 DEF RefreshRead, Owner, Former
  <2> QED  BY <2>1, <2>2, MeantCarries
<1>4. ASSUME NEW t \in Tab, LogoutFound(t) PROVE MeantInv'
  <2>1. at[t] = "logout.read" /\ UNCHANGED <<sess, jar, signedOut, astray>>
    BY <1>4 DEF LogoutFound, rows, history
  <2>2. PICK s \in Session : /\ sess[s].cur = mem[t].token
                             /\ Goto(t, "logout.write") /\ Hold(t, [mem[t] EXCEPT !.row = s])
    BY <1>4 DEF LogoutFound, Owner
  <2> QED  BY <2>1, <2>2, MeantCarries
<1>5. ASSUME NEW t \in Tab, SignIn(t) \/ Refresh(t) \/ SignOut(t) \/ Fail(t) PROVE MeantInv'
  <2>1. CASE SignIn(t) \/ Fail(t)  BY <2>1, MeantIssue, MeantOther
  <2>2. CASE Refresh(t)
    BY <1>3, <2>2, MeantSend, MeantRotate, MeantReceive, MeantOther DEF Refresh
  <2>3. CASE SignOut(t)  BY <1>4, <2>3, MeantLogout, MeantAnswered, MeantOther DEF SignOut
  <2> QED  BY <1>5, <2>1, <2>2, <2>3
<1> QED  BY <1>1, <1>2, <1>5 DEF Next

(* A logout ends the session whose cookies it carried (auth.py:342-355), for *)
(* any number of tabs and requests, unless a refresh of that session was    *)
(* under way with it or never got its answer: otherwise the token that the  *)
(* browser sends is the current one of that session until the logout reads. *)
THEOREM LogoutsEndAlone == Spec => []LogoutEndsAlone
<1>1. Init => MeantInv
  <2> SUFFICES ASSUME Init PROVE MeantInv  OBVIOUS
  <2>1. jar.token = 0 /\ signedOut = {} /\ \A t \in Tab : at[t] = "idle"  BY DEF Init, NoJar
  <2>2. "idle" \notin Carrying \cup Answer  BY DEF Carrying, Flight, Answer
  <2>3. "idle" \notin Flight /\ "idle" \notin {"logout.read", "logout.write"}  BY <2>2 DEF Carrying
  <2> QED  BY <2>1, <2>2, <2>3 DEF MeantInv, Named, Private, Current, Meet, Ended
<1>2. MeantInv => LogoutEndsAlone  BY DEF MeantInv, Ended, LogoutEndsAlone
<1> QED  BY <1>1, <1>2, NextMeant, SpecInv, PTL DEF Spec
=============================================================================
