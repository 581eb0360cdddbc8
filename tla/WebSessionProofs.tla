-------------------------- MODULE WebSessionProofs --------------------------
(***************************************************************************)
(* Proofs about WebSession, as part of Web, for any number of calls at the *)
(* same time, any users, and any bounds.                                   *)
(***************************************************************************)
EXTENDS Web, TLAPS, SequenceTheorems

-----------------------------------------------------------------------------
(* The inductive invariant.                                                *)

People == WebUsers \cup {Nobody}
SessionRow == [user : WebUsers, live : BOOLEAN]
TokenRow   == [user : WebUsers, fresh : BOOLEAN]

\* A call under way, and one that has ended.
CallRow ==
  [stage : {"sent", "refused", "granted", "refreshing", "refreshed"},
   kind : {"api", "login", "logout", "mount"}, as : People, isRetry : BOOLEAN,
   auth : Nat, cookie : Nat, calm : BOOLEAN, sure : BOOLEAN]
EndRow ==
  [stage : {"ended"}, as : People, by : People, refused : BOOLEAN,
   calm : BOOLEAN, sure : BOOLEAN]

TypeInv ==
  /\ sessions \in Seq(SessionRow)
  /\ tokens \in Seq(TokenRow)
  /\ cookie \in 0..Len(sessions)
  /\ accessToken \in 0..Len(tokens)
  /\ user \in People
  /\ settled \in BOOLEAN
  /\ calls \in [Callers -> {Idle} \cup CallRow \cup EndRow]

\* A calm call has what it needs not to be refused: a live session for its
\* refresh, then a fresh token for its retry.
CalmOk(r) ==
  r.kind = "api" /\ r.calm =>
    /\ Live(cookie)
    /\ r.stage = "refreshing" => Live(r.cookie)
    /\ r.stage = "refreshed" => Authentic(r.auth)
    /\ r.stage = "sent" /\ r.isRetry => Authentic(r.auth)
    /\ r.stage = "refused" => ~r.isRetry

\* What an answer brings belongs to one user.
GrantOk(r) ==
  /\ r.stage = "granted" /\ r.kind = "login" =>
       /\ r.auth # 0 /\ tokens[r.auth].user = r.as
       /\ r.cookie # 0 /\ sessions[r.cookie].user = r.as
  /\ r.stage = "granted" /\ r.kind = "mount" =>
       /\ r.auth # 0 /\ r.cookie # 0
       /\ tokens[r.auth].user = sessions[r.cookie].user
  /\ r.stage \in {"refused", "refreshing"} => r.auth = 0
  /\ r.kind = "login" => r.as \in WebUsers

\* While the tab is settled, whatever a call carries is the shown user's.
SureOk(r) ==
  /\ r.sure <=> settled
  /\ settled =>
       /\ r.kind = "api" => r.as = user /\ user # Nobody
       /\ r.kind = "mount" /\ r.stage \in {"sent", "granted"} /\ cookie # 0
            => r.cookie = cookie
       /\ user # Nobody =>
            /\ r.stage = "refreshing" /\ r.cookie # 0
                 => sessions[r.cookie].user = user
            /\ r.stage = "refreshed" /\ r.auth # 0 => tokens[r.auth].user = user
            /\ r.stage = "sent" /\ r.kind \in {"api", "logout"} /\ r.auth # 0
                 => tokens[r.auth].user = user

CallOk(r) ==
  /\ r.auth <= Len(tokens) /\ r.cookie <= Len(sessions)
  /\ CalmOk(r) /\ GrantOk(r) /\ SureOk(r)

EndOk(r) ==
  /\ r.refused => ~r.calm
  /\ r.by # Nobody => r.by = r.as \/ ~r.sure

\* Token and cookie of a settled tab are those of the user it shows.
SettledInv ==
  settled /\ user # Nobody =>
    /\ accessToken # 0 => tokens[accessToken].user = user
    /\ cookie # 0 => sessions[cookie].user = user

RowOk(r) == /\ r \in CallRow => CallOk(r)
            /\ r \in EndRow => EndOk(r)

IInv == TypeInv /\ SettledInv /\ \A c \in Callers : RowOk(calls[c])

-----------------------------------------------------------------------------
(* What a step keeps of the calls it is not about.                         *)

LEMMA BusyRows ==
  ASSUME TypeInv, NEW c \in Callers
  PROVE  /\ c \in Busy <=> calls[c] \in CallRow
         /\ c \notin Busy => calls[c] = Idle \/ calls[c] \in EndRow
         /\ Idle \notin CallRow /\ Idle \notin EndRow
         /\ \A r \in CallRow : r \notin EndRow
BY DEF TypeInv, Busy, CallRow, EndRow, Idle

\* Sessions and tokens are only added, and keep whose they are.
Grows ==
  /\ sessions' \in Seq(SessionRow) /\ tokens' \in Seq(TokenRow)
  /\ Len(sessions) <= Len(sessions') /\ Len(tokens) <= Len(tokens')
  /\ \A i \in 1..Len(sessions) : sessions'[i].user = sessions[i].user
  /\ \A i \in 1..Len(tokens) : tokens'[i].user = tokens[i].user

\* The call r is q after a step that is not its own.
Same(r, q) == /\ r \in CallRow /\ q \in CallRow
              /\ q.stage = r.stage /\ q.kind = r.kind /\ q.as = r.as
              /\ q.isRetry = r.isRetry /\ q.auth = r.auth /\ q.cookie = r.cookie
Lasts(r) ==
  /\ Live(cookie) => Live(cookie)'
  /\ Live(r.cookie) => sessions'[r.cookie].live
  /\ (r.stage = "refreshed" \/ r.isRetry) /\ Authentic(r.auth)
       => tokens'[r.auth].fresh
Follows(r, q) ==
  /\ q.calm => r.calm /\ Lasts(r)
  /\ q.sure <=> settled'
  /\ settled' => settled /\ user' = user /\ cookie' \in {0, cookie}

LEMMA RowKept ==
  ASSUME TypeInv, Grows, NEW d \in Callers, CallOk(calls[d]),
         Same(calls[d], calls'[d]), Follows(calls[d], calls'[d])
  PROVE  CallOk(calls[d])'
<1> DEFINE r == calls[d]
<1>1. r.auth \in Nat /\ r.cookie \in Nat
  BY DEF Same, CallRow
<1>2. Len(sessions) \in Nat /\ Len(tokens) \in Nat
      /\ Len(sessions') \in Nat /\ Len(tokens') \in Nat
  BY LenProperties DEF TypeInv, Grows
<1>3. /\ r.auth <= Len(tokens) /\ r.cookie <= Len(sessions)
      /\ r.auth <= Len(tokens') /\ r.cookie <= Len(sessions')
      /\ r.auth # 0 => tokens'[r.auth].user = tokens[r.auth].user
      /\ r.cookie # 0 => sessions'[r.cookie].user = sessions[r.cookie].user
  BY <1>1, <1>2 DEF CallOk, Grows
<1>4. (calls[d].auth <= Len(tokens))' /\ (calls[d].cookie <= Len(sessions))'
  BY <1>3 DEF Same
<1>5. CalmOk(calls[d])'
  BY DEF CallOk, CalmOk, Same, Follows, Lasts, Live, Authentic
<1>6. GrantOk(calls[d])'
  BY <1>3 DEF CallOk, GrantOk, Same
<1>7. SureOk(calls[d])'
  BY <1>3 DEF CallOk, SureOk, Same, Follows
<1>8. QED
  BY <1>4, <1>5, <1>6, <1>7 DEF CallOk

LEMMA Step ==
  ASSUME IInv, Grows,
         cookie' \in 0..Len(sessions'), accessToken' \in 0..Len(tokens'),
         user' \in People, settled' \in BOOLEAN, SettledInv',
         calls' \in [Callers -> {Idle} \cup CallRow \cup EndRow],
         NEW own \in SUBSET Callers, \A c \in own : RowOk(calls[c])',
         \A d \in Callers \ own : d \notin Busy => calls'[d] = calls[d],
         \A d \in (Callers \ own) \cap Busy : /\ Same(calls[d], calls'[d])
                                            /\ Follows(calls[d], calls'[d])
  PROVE  IInv'
<1>1. TypeInv'
  BY DEF TypeInv, Grows
<1>2. ASSUME NEW d \in Callers \ own, d \in Busy PROVE RowOk(calls[d])'
  <2>1. CallOk(calls[d])'
    BY <1>2, RowKept, BusyRows DEF IInv, RowOk
  <2>2. (calls[d] \notin EndRow)'
    BY <1>2, BusyRows DEF Same, IInv
  <2>3. QED
    BY <2>1, <2>2 DEF RowOk
<1>3. ASSUME NEW d \in Callers \ own, d \notin Busy PROVE RowOk(calls[d])'
  <2>1. calls'[d] = calls[d] /\ calls'[d] \notin CallRow
    BY <1>3, BusyRows DEF IInv
  <2>2. QED
    BY <2>1 DEF RowOk, IInv, EndOk
<1>4. \A c \in Callers : RowOk(calls[c])'
  BY <1>2, <1>3
<1>5. QED
  BY <1>1, <1>4 DEF IInv

-----------------------------------------------------------------------------
(* Steps of one call.                                                      *)

LEMMA GrowsSame == TypeInv /\ UNCHANGED <<sessions, tokens>> => Grows
BY LenProperties DEF TypeInv, Grows

LEMMA GrowsSigned ==
  ASSUME TypeInv, NEW u \in WebUsers, tokens' = Signed(u), UNCHANGED sessions
  PROVE  /\ Grows /\ Len(tokens') = Len(tokens) + 1
         /\ tokens'[Len(tokens')] = [user |-> u, fresh |-> TRUE]
         /\ \A i \in 1..Len(tokens) : tokens'[i] = tokens[i]
<1>1. [user |-> u, fresh |-> TRUE] \in TokenRow
  BY DEF TokenRow
<1>2. QED
  BY <1>1, AppendProperties, LenProperties DEF TypeInv, Grows, Signed

LEMMA GrowsOpened ==
  ASSUME TypeInv, NEW u \in WebUsers, sessions' = Opened(u),
         UNCHANGED tokens \/ tokens' = Signed(u)
  PROVE  /\ Grows /\ Len(sessions') = Len(sessions) + 1
         /\ sessions'[Len(sessions')] = [user |-> u, live |-> TRUE]
         /\ \A i \in 1..Len(sessions) : sessions'[i] = sessions[i]
         /\ \A i \in 1..Len(tokens) : tokens'[i] = tokens[i]
         /\ tokens' = Signed(u) =>
              /\ Len(tokens') = Len(tokens) + 1
              /\ tokens'[Len(tokens')] = [user |-> u, fresh |-> TRUE]
<1>1. /\ [user |-> u, live |-> TRUE] \in SessionRow
      /\ [user |-> u, fresh |-> TRUE] \in TokenRow
  BY DEF SessionRow, TokenRow
<1>2. /\ Len(sessions') = Len(sessions) + 1 /\ sessions' \in Seq(SessionRow)
      /\ sessions'[Len(sessions')] = [user |-> u, live |-> TRUE]
      /\ \A i \in 1..Len(sessions) : sessions'[i] = sessions[i]
  BY <1>1, AppendProperties, LenProperties DEF TypeInv, Opened
<1>3. /\ Len(tokens) <= Len(tokens') /\ tokens' \in Seq(TokenRow)
      /\ \A i \in 1..Len(tokens) : tokens'[i] = tokens[i]
      /\ tokens' = Signed(u) =>
           /\ Len(tokens') = Len(tokens) + 1
           /\ tokens'[Len(tokens')] = [user |-> u, fresh |-> TRUE]
  <2>1. CASE UNCHANGED tokens /\ tokens' # Signed(u)
    BY <2>1, LenProperties DEF TypeInv
  <2>2. CASE tokens' = Signed(u)
    BY <2>2, <1>1, AppendProperties, LenProperties DEF TypeInv, Signed
  <2>3. QED
    BY <2>1, <2>2
<1>4. /\ \A i \in 1..Len(sessions) : sessions'[i].user = sessions[i].user
      /\ \A i \in 1..Len(tokens) : tokens'[i].user = tokens[i].user
      /\ Len(sessions) <= Len(sessions')
  BY <1>2, <1>3, LenProperties DEF TypeInv
<1>5. QED
  BY <1>2, <1>3, <1>4 DEF Grows

LEMMA OwnStep ==
  ASSUME IInv, NEW c \in Callers,
         NEW q \in {Idle} \cup CallRow \cup EndRow, calls' = [calls EXCEPT ![c] = q],
         UNCHANGED <<sessions, cookie, user, settled>>,
         UNCHANGED tokens \/ \E u \in WebUsers : tokens' = Signed(u),
         accessToken' \in 0..Len(tokens'), SettledInv', RowOk(calls[c])'
  PROVE  IInv'
<1>1. Grows /\ \A i \in 1..Len(tokens) : tokens'[i] = tokens[i]
  BY GrowsSame, GrowsSigned DEF IInv
<1>2. calls' \in [Callers -> {Idle} \cup CallRow \cup EndRow]
  BY DEF IInv, TypeInv
<1>3. ASSUME NEW d \in Callers, d # c PROVE calls'[d] = calls[d]
  BY <1>3 DEF IInv, TypeInv
<1>4. ASSUME NEW d \in Callers, d # c, d \in Busy
      PROVE  Same(calls[d], calls'[d]) /\ Follows(calls[d], calls'[d])
  <2>1. calls[d] \in CallRow /\ CallOk(calls[d]) /\ calls'[d] = calls[d]
    BY <1>3, <1>4, BusyRows DEF IInv, RowOk
  <2>2. calls[d].auth \in Nat /\ calls[d].auth <= Len(tokens) /\ Len(tokens) \in Nat
    BY <2>1, LenProperties DEF CallRow, CallOk, IInv, TypeInv
  <2>3. Lasts(calls[d])
    BY <1>1, <2>2 DEF Lasts, Live, Authentic
  <2>4. QED
    BY <2>1, <2>3 DEF Same, Follows, CallOk, SureOk
<1>5. cookie' \in 0..Len(sessions') /\ user' \in People /\ settled' \in BOOLEAN
  BY DEF IInv, TypeInv
<1>6. QED
  BY <1>1, <1>2, <1>3, <1>4, <1>5, Step, {c} \in SUBSET Callers

(* Steps with which the tab changes user.                                  *)

LEMMA LeaveStep ==
  ASSUME IInv, NEW c \in Callers, NEW S,
         calls' = Unsure(Callers \ {c}, Uncalm(S, [calls EXCEPT ![c] = Idle])),
         Callers \ {c} \subseteq S \/ (Live(cookie) => Live(cookie)'),
         settled' \in BOOLEAN, settled' => Busy = {c},
         UNCHANGED <<sessions, tokens>>,
         cookie' \in 0..Len(sessions), accessToken' \in 0..Len(tokens),
         user' \in People, c \notin S, SettledInv'
  PROVE  IInv'
<1>1. Grows
  BY GrowsSame DEF IInv
<1>2. calls'[c] = Idle
  BY DEF Unsure, Uncalm, IInv, TypeInv, Busy
<1>3. ASSUME NEW d \in Callers, d # c, d \notin Busy PROVE calls'[d] = calls[d]
  BY <1>3 DEF Unsure, Uncalm, IInv, TypeInv
<1>4. ASSUME NEW d \in Callers, d # c, d \in Busy
      PROVE  Same(calls[d], calls'[d]) /\ Follows(calls[d], calls'[d])
  <2>1. calls[d] \in CallRow /\ CallOk(calls[d])
    BY <1>4, BusyRows DEF IInv, RowOk
  <2>2. calls'[d] = [(IF d \in S THEN [calls[d] EXCEPT !.calm = FALSE] ELSE calls[d])
                       EXCEPT !.sure = FALSE]
    BY <1>4 DEF Unsure, Uncalm, IInv, TypeInv
  <2>3. Same(calls[d], calls'[d])
    BY <2>1, <2>2 DEF Same, CallRow
  <2>4. calls'[d].sure = FALSE /\ settled' = FALSE
    BY <1>4, <2>1, <2>2 DEF CallRow
  <2>5. calls'[d].calm => calls[d].calm /\ d \notin S
    BY <2>1, <2>2 DEF CallRow
  <2>6. calls'[d].calm => Lasts(calls[d])
    <3>1. \A i : sessions'[i] = sessions[i] /\ tokens'[i] = tokens[i]
      OBVIOUS
    <3>2. ASSUME calls'[d].calm PROVE Live(cookie) => Live(cookie)'
      BY <1>4, <2>5, <3>2
    <3>3. QED
      BY <3>1, <3>2 DEF Lasts, Live, Authentic
  <2>7. QED
    BY <2>3, <2>4, <2>5, <2>6 DEF Follows
<1>5. calls' \in [Callers -> {Idle} \cup CallRow \cup EndRow]
  <2>1. \A d \in Callers : calls'[d] \in {Idle} \cup CallRow \cup EndRow
    BY <1>2, <1>3, <1>4 DEF Same, IInv, TypeInv
  <2>2. QED
    BY <2>1 DEF Unsure
<1>6. RowOk(calls[c])'
  BY <1>2, BusyRows DEF RowOk, IInv
<1>7. QED
  BY <1>1, <1>3, <1>4, <1>5, <1>6, Step, {c} \in SUBSET Callers

-----------------------------------------------------------------------------
(* What a call under way looks like.                                       *)

LEMMA Under ==
  ASSUME IInv, NEW c \in Callers, c \in Busy
  PROVE  /\ calls[c] \in CallRow /\ CallOk(calls[c])
         /\ calls[c].auth \in 0..Len(tokens) /\ calls[c].cookie \in 0..Len(sessions)
         /\ Len(tokens) \in Nat /\ Len(sessions) \in Nat
         /\ calls[c].auth # 0 => tokens[calls[c].auth] \in TokenRow
         /\ calls[c].cookie # 0 => sessions[calls[c].cookie] \in SessionRow
<1>1. calls[c] \in CallRow /\ CallOk(calls[c])
  BY BusyRows DEF IInv, RowOk
<1>2. Len(tokens) \in Nat /\ Len(sessions) \in Nat
  BY LenProperties DEF IInv, TypeInv
<1>3. calls[c].auth \in 0..Len(tokens) /\ calls[c].cookie \in 0..Len(sessions)
  BY <1>1, <1>2 DEF CallRow, CallOk
<1>4. /\ \A i \in 1..Len(tokens) : tokens[i] \in TokenRow
      /\ \A i \in 1..Len(sessions) : sessions[i] \in SessionRow
  BY ElementOfSeq DEF IInv, TypeInv
<1>5. QED
  BY <1>1, <1>2, <1>3, <1>4

LEMMA InitInv == SessionInit => IInv
<1> SUFFICES ASSUME SessionInit PROVE IInv
  OBVIOUS
<1>1. PICK first \in WebUsers : sessions = << [user |-> first, live |-> TRUE] >>
  BY DEF SessionInit
<1>2. /\ sessions \in Seq(SessionRow) /\ Len(sessions) = 1
      /\ tokens \in Seq(TokenRow) /\ Len(tokens) = 0
  BY <1>1 DEF SessionInit, SessionRow
<1>3. PICK c \in Callers : calls = [d \in Callers |-> IF d # c THEN Idle
       ELSE [stage |-> "sent", kind |-> "mount", as |-> Nobody, auth |-> 0,
             cookie |-> 1, isRetry |-> FALSE, calm |-> TRUE, sure |-> TRUE]]
  BY DEF SessionInit
<1> DEFINE r == [stage |-> "sent", kind |-> "mount", as |-> Nobody, auth |-> 0,
             cookie |-> 1, isRetry |-> FALSE, calm |-> TRUE, sure |-> TRUE]
<1>4. r \in CallRow /\ r \notin EndRow /\ Idle \notin CallRow /\ Idle \notin EndRow
  BY DEF CallRow, EndRow, Idle, People
<1>5. TypeInv
  BY <1>2, <1>3, <1>4 DEF TypeInv, SessionInit, People
<1>6. SettledInv
  BY DEF SettledInv, SessionInit
<1>7. CallOk(r)
  BY <1>2 DEF CallOk, CalmOk, GrantOk, SureOk, SessionInit
<1>8. \A d \in Callers : RowOk(calls[d])
  BY <1>3, <1>4, <1>7 DEF RowOk
<1>9. QED
  BY <1>5, <1>6, <1>8 DEF IInv

-----------------------------------------------------------------------------
(* The actions.                                                            *)

\* What a request carries when it is sent with the token t.
LEMMA Sending ==
  ASSUME IInv, NEW c \in Callers,
         NEW kind \in {"api", "login", "logout", "mount"}, NEW as \in People,
         NEW isRetry \in BOOLEAN, NEW calm \in BOOLEAN,
         NEW sure \in BOOLEAN, sure <=> settled, kind = "login" => as \in WebUsers,
         kind = "api" /\ settled => as = user /\ user # Nobody,
         kind = "api" /\ calm => Live(cookie) /\ (isRetry => Authentic(accessToken)'),
         settled /\ user # Nobody /\ accessToken' # 0
           => tokens[accessToken'].user = user,
         accessToken' \in 0..Len(tokens),
         UNCHANGED <<sessions, tokens, cookie, user, settled>>,
         calls' = [calls EXCEPT ![c] = Request(kind, as, isRetry, calm, sure)]
  PROVE  IInv'
<1>1. Len(tokens) \in Nat /\ Len(sessions) \in Nat
  BY LenProperties DEF IInv, TypeInv
<1>2. PICK auth \in Nat, cook \in Nat :
        /\ auth = IF kind \in {"api", "logout"} THEN accessToken' ELSE 0
        /\ cook = IF kind \in {"mount", "logout"} THEN cookie ELSE 0
  BY <1>1 DEF IInv, TypeInv
<1>3. PICK q : q = [stage |-> "sent", kind |-> kind, as |-> as, isRetry |-> isRetry,
                    auth |-> auth, cookie |-> cook, calm |-> calm, sure |-> sure]
  OBVIOUS
<1>4. calls' = [calls EXCEPT ![c] = q] /\ calls'[c] = q
  BY <1>2, <1>3 DEF Request, IInv, TypeInv
<1>5. q \in CallRow /\ q \notin EndRow
  BY <1>3 DEF CallRow, EndRow
<1>6. /\ q.stage = "sent" /\ q.kind = kind /\ q.as = as /\ q.isRetry = isRetry
      /\ q.auth = auth /\ q.cookie = cook /\ q.calm = calm /\ q.sure = sure
  BY <1>3
<1>7. (calls[c].auth <= Len(tokens) /\ calls[c].cookie <= Len(sessions))'
  BY <1>1, <1>2, <1>4, <1>6 DEF IInv, TypeInv
<1>8. CalmOk(calls[c])'
  BY <1>2, <1>4, <1>6 DEF CalmOk, Live, Authentic
<1>9. GrantOk(calls[c])'
  BY <1>4, <1>6 DEF GrantOk
<1>10. SureOk(calls[c])'
  BY <1>2, <1>4, <1>6 DEF SureOk
<1>11. RowOk(calls[c])'
  BY <1>4, <1>5, <1>7, <1>8, <1>9, <1>10 DEF RowOk, CallOk
<1>12. SettledInv'
  BY DEF SettledInv, IInv
<1>13. QED
  BY <1>4, <1>5, <1>11, <1>12, OwnStep

LEMMA CallStep ==
  ASSUME IInv, NEW c \in Callers, StartCall(c) \/ StartLogin(c) \/ StartLogout(c)
  PROVE  IInv'
<1>1. PICK kind \in {"api", "login", "logout"}, as \in People :
        /\ Call(c, kind, as)
        /\ kind = "api" => as = user /\ user # Nobody
        /\ kind = "login" => as \in WebUsers
  BY DEF StartCall, StartLogin, StartLogout, People, IInv, TypeInv
<1>2. PICK calm \in BOOLEAN : calm = Live(cookie)
  BY DEF Live
<1>3. PICK sure \in BOOLEAN : sure = settled
  BY DEF IInv, TypeInv
<1>4. Request(kind, as, FALSE, Live(cookie), settled) = Request(kind, as, FALSE, calm, sure)
  BY <1>2, <1>3
<1>5. /\ calls' = [calls EXCEPT ![c] = Request(kind, as, FALSE, calm, sure)]
      /\ UNCHANGED <<sessions, tokens, cookie, accessToken, user, settled>>
  BY <1>1, <1>4 DEF Call
<1>6. settled /\ user # Nobody /\ accessToken' # 0 => tokens[accessToken'].user = user
  BY <1>5 DEF IInv, SettledInv
<1>7. QED
  BY <1>1, <1>2, <1>3, <1>5, <1>6, Sending DEF IInv, TypeInv

\* A call under way moves on, with another token and cookie.
LEMMA Moving ==
  ASSUME IInv, NEW c \in Callers, c \in Busy,
         NEW stage \in {"sent", "refused", "granted", "refreshing", "refreshed"},
         NEW auth \in Nat, NEW cook \in Nat,
         auth <= Len(tokens'), cook <= Len(sessions),
         calls' = [calls EXCEPT ![c] = [calls[c] EXCEPT !.stage = stage, !.auth = auth,
                                                         !.cookie = cook]],
         UNCHANGED <<sessions, cookie, accessToken, user, settled>>,
         UNCHANGED tokens \/ \E u \in WebUsers : tokens' = Signed(u),
         stage # "sent", stage \in {"refused", "refreshing"} => auth = 0,
         stage # "granted" \/ calls[c].kind # "login",
         stage = "granted" /\ calls[c].kind = "mount" =>
           /\ auth # 0 /\ cook # 0 /\ tokens'[auth].user = sessions[cook].user
           /\ cook = calls[c].cookie /\ calls[c].stage = "sent",
         calls[c].kind = "api" /\ calls[c].calm =>
           /\ stage = "refreshing" => Live(cook)
           /\ stage = "refreshed" => auth # 0 /\ tokens'[auth].fresh
           /\ stage = "refused" => ~calls[c].isRetry,
         settled /\ user # Nobody =>
           /\ stage = "refreshing" /\ cook # 0 => sessions[cook].user = user
           /\ stage = "refreshed" /\ auth # 0 => tokens'[auth].user = user
  PROVE  IInv'
<1>1. PICK q : q = [calls[c] EXCEPT !.stage = stage, !.auth = auth, !.cookie = cook]
  OBVIOUS
<1>2. calls' = [calls EXCEPT ![c] = q] /\ calls'[c] = q
  BY <1>1 DEF IInv, TypeInv
<1>3. calls[c] \in CallRow /\ CallOk(calls[c])
  BY Under
<1>4. q \in CallRow /\ q \notin EndRow
  BY <1>1, <1>3 DEF CallRow, EndRow
<1>5. /\ q.stage = stage /\ q.auth = auth /\ q.cookie = cook
      /\ q.kind = calls[c].kind /\ q.as = calls[c].as /\ q.isRetry = calls[c].isRetry
      /\ q.calm = calls[c].calm /\ q.sure = calls[c].sure
  BY <1>1, <1>3 DEF CallRow
<1>6. (calls[c].auth <= Len(tokens) /\ calls[c].cookie <= Len(sessions))'
  BY <1>2, <1>5
<1>7. CalmOk(calls[c])'
  BY <1>2, <1>3, <1>5 DEF CalmOk, CallOk, Live, Authentic
<1>8. GrantOk(calls[c])'
  BY <1>2, <1>3, <1>5 DEF GrantOk, CallOk
<1>9. SureOk(calls[c])'
  BY <1>2, <1>3, <1>5 DEF SureOk, CallOk
<1>10. RowOk(calls[c])'
  BY <1>2, <1>4, <1>6, <1>7, <1>8, <1>9 DEF RowOk, CallOk
<1>11. /\ Len(tokens) \in Nat /\ Len(tokens) <= Len(tokens')
       /\ \A i \in 1..Len(tokens) : tokens'[i] = tokens[i]
       /\ Len(tokens') \in Nat
  <2>1. CASE UNCHANGED tokens
    BY <2>1, LenProperties DEF IInv, TypeInv
  <2>2. CASE \E u \in WebUsers : tokens' = Signed(u)
    <3>1. PICK u \in WebUsers : tokens' = Signed(u)
      BY <2>2
    <3>2. Len(tokens') = Len(tokens) + 1 /\ \A i \in 1..Len(tokens) : tokens'[i] = tokens[i]
      BY <3>1, GrowsSigned DEF IInv
    <3>3. Len(tokens) \in Nat
      BY LenProperties DEF IInv, TypeInv
    <3>4. QED
      BY <3>2, <3>3
  <2>3. QED
    BY <2>1, <2>2
<1>12. accessToken' \in 0..Len(tokens') /\ SettledInv'
  BY <1>11 DEF SettledInv, IInv, TypeInv
<1>13. QED
  BY <1>2, <1>4, <1>10, <1>12, OwnStep

\* A call ends, or is dropped.
LEMMA Ending ==
  ASSUME IInv, NEW c \in Callers,
         NEW q, calls' = [calls EXCEPT ![c] = q], q = Idle \/ (q \in EndRow /\ EndOk(q)),
         accessToken' \in {0, accessToken},
         UNCHANGED <<sessions, tokens, cookie, user, settled>>
  PROVE  IInv'
<1>1. calls'[c] = q /\ q \notin CallRow /\ q \in {Idle} \cup CallRow \cup EndRow
  BY BusyRows DEF IInv, TypeInv
<1>2. RowOk(calls[c])'
  BY <1>1, BusyRows DEF RowOk, EndOk, IInv
<1>3. accessToken' \in 0..Len(tokens') /\ SettledInv'
  BY LenProperties DEF SettledInv, IInv, TypeInv
<1>4. QED
  BY <1>1, <1>2, <1>3, OwnStep

LEMMA RefuseStep == ASSUME IInv, NEW c \in Callers, Refuse(c) PROVE IInv'
<1>1. calls[c] \in CallRow /\ CallOk(calls[c]) /\ 0 <= Len(tokens) /\ 0 <= Len(sessions)
  BY Under DEF Refuse
<1>2. calls[c].kind = "api" /\ calls[c].calm => ~calls[c].isRetry
  BY <1>1 DEF Refuse, CallOk, CalmOk
<1>3. calls' = [calls EXCEPT ![c] = [calls[c] EXCEPT !.stage = "refused", !.auth = 0,
                                                      !.cookie = 0]]
  BY DEF Refuse
<1>4. QED
  BY <1>1, <1>2, <1>3, Moving DEF Refuse

LEMMA tryRefreshStep == ASSUME IInv, NEW c \in Callers, tryRefresh(c) PROVE IInv'
<1>1. /\ calls[c] \in CallRow /\ CallOk(calls[c])
      /\ 0 <= Len(tokens)
  BY Under DEF tryRefresh
<1>2. cookie \in Nat /\ cookie <= Len(sessions)
  BY LenProperties DEF IInv, TypeInv
<1>3. calls' = [calls EXCEPT ![c] = [calls[c] EXCEPT !.stage = "refreshing",
                                                      !.auth = 0, !.cookie = cookie]]
  BY <1>1 DEF tryRefresh, CallRow, CallOk, GrantOk
<1>4. calls[c].kind = "api" /\ calls[c].calm => Live(cookie)
  BY <1>1 DEF CallOk, CalmOk
<1>5. settled /\ user # Nobody /\ cookie # 0 => sessions[cookie].user = user
  BY DEF IInv, SettledInv
<1>6. QED
  BY <1>1, <1>2, <1>3, <1>4, <1>5, Moving DEF tryRefresh

LEMMA refreshStep == ASSUME IInv, NEW c \in Callers, refresh(c) PROVE IInv'
<1>1. /\ calls[c] \in CallRow /\ CallOk(calls[c]) /\ Len(tokens) \in Nat
      /\ 0 <= Len(tokens) /\ 0 <= Len(sessions)
      /\ calls[c].cookie # 0 => sessions[calls[c].cookie] \in SessionRow
  BY Under DEF refresh
<1>2. /\ c \in Busy /\ UNCHANGED <<sessions, cookie, accessToken, user, settled>>
      /\ calls[c].stage = "refreshing"
  BY DEF refresh
<1>3. CASE Live(calls[c].cookie)
  <2>1. PICK u \in WebUsers : u = sessions[calls[c].cookie].user
    BY <1>1, <1>3 DEF Live, SessionRow
  <2>2. tokens' = Signed(u)
    BY <1>3, <2>1 DEF refresh
  <2>3. /\ Len(tokens') = Len(tokens) + 1
        /\ tokens'[Len(tokens')] = [user |-> u, fresh |-> TRUE]
    BY <1>2, <2>2, GrowsSigned DEF IInv
  <2>4. PICK n \in Nat : n = Len(tokens')
    BY <1>1, <2>3
  <2>5. n # 0 /\ n <= Len(tokens') /\ tokens'[n].user = u /\ tokens'[n].fresh
    BY <1>1, <2>3, <2>4
  <2>6. calls' = [calls EXCEPT ![c] = [calls[c] EXCEPT !.stage = "refreshed",
                                                        !.auth = n, !.cookie = 0]]
    BY <1>3, <2>4 DEF refresh
  <2>7. settled /\ user # Nobody => u = user
    BY <1>1, <1>2, <1>3, <2>1 DEF CallOk, SureOk, Live
  <2>8. QED
    BY <1>1, <1>2, <2>2, <2>5, <2>6, <2>7, Moving
<1>4. CASE ~Live(calls[c].cookie)
  <2>1. calls' = [calls EXCEPT ![c] = [calls[c] EXCEPT !.stage = "refreshed",
                                                        !.auth = 0, !.cookie = 0]]
    <3>1. calls[c].auth = 0
      BY <1>1, <1>2 DEF CallOk, GrantOk
    <3>2. [calls[c] EXCEPT !.stage = "refreshed", !.cookie = 0]
            = [calls[c] EXCEPT !.stage = "refreshed", !.auth = 0, !.cookie = 0]
      BY <1>1, <3>1 DEF CallRow
    <3>3. QED
      BY <1>4, <3>2 DEF refresh
  <2>2. UNCHANGED tokens
    BY <1>4 DEF refresh
  <2>3. ~(calls[c].kind = "api" /\ calls[c].calm)
    BY <1>1, <1>2, <1>4 DEF CallOk, CalmOk
  <2>4. QED
    BY <1>1, <1>2, <2>1, <2>2, <2>3, Moving
<1>5. QED
  BY <1>3, <1>4

LEMMA AnswerStep == ASSUME IInv, NEW c \in Callers, Answer(c) PROVE IInv'
<1>1. /\ calls[c] \in CallRow /\ CallOk(calls[c])
      /\ calls[c].auth # 0 => tokens[calls[c].auth] \in TokenRow
  BY Under DEF Answer
<1>2. calls[c].kind = "api" /\ calls[c].stage = "sent" /\ calls[c].auth # 0
  BY DEF Answer, Authentic
<1>3. PICK by \in WebUsers : by = tokens[calls[c].auth].user
  BY <1>1, <1>2 DEF TokenRow
<1>4. calls[c].sure => by = calls[c].as
  BY <1>1, <1>2, <1>3 DEF CallOk, SureOk
<1>5. PICK q : q = Ended(c, by, FALSE)
  OBVIOUS
<1>6. q \in EndRow /\ EndOk(q)
  BY <1>1, <1>4, <1>5 DEF Ended, EndRow, EndOk, CallRow, People
<1>7. calls' = [calls EXCEPT ![c] = q]
  BY <1>3, <1>5 DEF Answer
<1>8. QED
  BY <1>6, <1>7, Ending DEF Answer

\* A call ends with its 401.
LEMMA EndedRefused ==
  ASSUME NEW c, calls[c] \in CallRow, ~calls[c].calm
  PROVE  Ended(c, Nobody, TRUE) \in EndRow /\ EndOk(Ended(c, Nobody, TRUE))
BY DEF Ended, EndRow, EndOk, CallRow, People

LEMMA GiveUpStep == ASSUME IInv, NEW c \in Callers, GiveUp(c) PROVE IInv'
<1>1. calls[c] \in CallRow /\ CallOk(calls[c])
  BY Under DEF GiveUp
<1>2. calls[c].kind = "api" => ~calls[c].calm
  BY <1>1 DEF CallOk, CalmOk, GiveUp
<1>3. PICK q : calls' = [calls EXCEPT ![c] = q] /\ (q = Idle \/ (q \in EndRow /\ EndOk(q)))
  BY <1>1, <1>2, EndedRefused DEF GiveUp
<1>4. QED
  BY <1>3, Ending DEF GiveUp

LEMMA RefreshedStep == ASSUME IInv, NEW c \in Callers, Refreshed(c) PROVE IInv'
<1> DEFINE r == calls[c]
<1>1. /\ r \in CallRow /\ CallOk(r) /\ r.auth \in 0..Len(tokens) /\ r.auth # 0
      /\ r.stage = "refreshed" /\ accessToken' = r.auth
      /\ UNCHANGED <<sessions, tokens, cookie, user, settled>>
  BY Under DEF Refreshed
<1>2. r.kind = "api" /\ settled => r.as = user /\ user # Nobody
  BY <1>1 DEF CallOk, SureOk
<1>3. r.kind = "api" /\ r.calm => Live(cookie) /\ Authentic(accessToken)'
  BY <1>1 DEF CallOk, CalmOk, Authentic
<1>4. settled /\ user # Nobody => tokens[accessToken'].user = user
  BY <1>1 DEF CallOk, SureOk
<1>5. (r.sure <=> settled) /\ (r.kind = "login" => r.as \in WebUsers)
  BY <1>1 DEF CallOk, SureOk, GrantOk
<1>6. PICK kind \in {"api", "login", "logout", "mount"}, as \in People,
           calm \in BOOLEAN, sure \in BOOLEAN :
        kind = r.kind /\ as = r.as /\ calm = r.calm /\ sure = r.sure
  BY <1>1 DEF CallRow
<1>7. calls' = [calls EXCEPT ![c] = Request(kind, as, TRUE, calm, sure)]
  BY <1>6 DEF Refreshed, Retry
<1> HIDE DEF r
<1>8. QED
  BY <1>1, <1>2, <1>3, <1>4, <1>5, <1>6, <1>7, Sending

\* A call that is not its own loses its calm, or sees nothing change.
LEMMA CalmLost ==
  ASSUME IInv, NEW d \in Callers, d \in Busy, NEW S,
         calls'[d] = IF d \in S THEN [calls[d] EXCEPT !.calm = FALSE] ELSE calls[d],
         UNCHANGED <<user, settled>>, cookie' \in {0, cookie},
         d \notin S => Lasts(calls[d])
  PROVE  Same(calls[d], calls'[d]) /\ Follows(calls[d], calls'[d])
<1>1. calls[d] \in CallRow /\ (calls[d].sure <=> settled)
  BY Under DEF CallOk, SureOk
<1>2. Same(calls[d], calls'[d])
  BY <1>1 DEF Same, CallRow
<1>3. calls'[d].sure = calls[d].sure /\ (calls'[d].calm => calls[d].calm /\ d \notin S)
  BY <1>1 DEF CallRow
<1>4. QED
  BY <1>1, <1>2, <1>3 DEF Follows

LEMMA LastsWhole ==
  ASSUME IInv, NEW d \in Callers, d \in Busy, UNCHANGED cookie,
         \A i \in 1..Len(sessions) : sessions'[i] = sessions[i],
         \A i \in 1..Len(tokens) : tokens'[i] = tokens[i]
  PROVE  Lasts(calls[d])
<1>1. /\ calls[d].auth \in 0..Len(tokens) /\ calls[d].cookie \in 0..Len(sessions)
      /\ Len(tokens) \in Nat /\ Len(sessions) \in Nat /\ cookie \in 0..Len(sessions)
  BY Under DEF IInv, TypeInv
<1>2. QED
  BY <1>1 DEF Lasts, Live, Authentic

LEMMA Replaced ==
  ASSUME NEW S, NEW s \in Seq(S), NEW i \in 1..Len(s), NEW e \in S,
         NEW t, t = [s EXCEPT ![i] = e]
  PROVE  /\ t \in Seq(S) /\ Len(t) = Len(s)
         /\ \A j \in 1..Len(s) : t[j] = IF j = i THEN e ELSE s[j]
BY ExceptSeq

\* A session ends: e is what becomes of it.
LEMMA SessionEnds ==
  ASSUME TypeInv, NEW i \in 1..Len(sessions), UNCHANGED tokens,
         NEW e, e = [sessions[i] EXCEPT !.live = FALSE],
         sessions' = [sessions EXCEPT ![i] = e]
  PROVE  Grows /\ Len(sessions') = Len(sessions)
<1>1. sessions \in Seq(SessionRow)
  BY DEF TypeInv
<1>2. sessions[i] \in SessionRow
  BY <1>1, ElementOfSeq
<1>3. e \in SessionRow /\ e.user = sessions[i].user
  BY <1>2 DEF SessionRow
<1>4. /\ sessions' \in Seq(SessionRow) /\ Len(sessions') = Len(sessions)
      /\ \A j \in 1..Len(sessions) : sessions'[j] = IF j = i THEN e ELSE sessions[j]
  BY <1>1, <1>3, Replaced
<1>5. QED
  BY <1>3, <1>4, LenProperties DEF Grows, TypeInv

LEMMA TokenExpires ==
  ASSUME TypeInv, NEW t \in 1..Len(tokens), UNCHANGED sessions,
         NEW e, e = [tokens[t] EXCEPT !.fresh = FALSE],
         tokens' = [tokens EXCEPT ![t] = e]
  PROVE  Grows /\ \A j \in 1..Len(tokens) : j # t => tokens'[j] = tokens[j]
<1>1. tokens \in Seq(TokenRow)
  BY DEF TypeInv
<1>2. tokens[t] \in TokenRow
  BY <1>1, ElementOfSeq
<1>3. e \in TokenRow /\ e.user = tokens[t].user
  BY <1>2 DEF TokenRow
<1>4. /\ tokens' \in Seq(TokenRow) /\ Len(tokens') = Len(tokens)
      /\ \A j \in 1..Len(tokens) : tokens'[j] = IF j = t THEN e ELSE tokens[j]
  BY <1>1, <1>3, Replaced
<1>5. QED
  BY <1>3, <1>4, LenProperties DEF Grows, TypeInv

\* What the server grows keeps a settled tab's token and cookie its user's.
LEMMA SettledKept ==
  ASSUME IInv, Grows, UNCHANGED <<user, settled>>,
         accessToken' \in {0, accessToken}, cookie' \in {0, cookie}
  PROVE  /\ SettledInv' /\ cookie' \in 0..Len(sessions') /\ accessToken' \in 0..Len(tokens')
         /\ user' \in People /\ settled' \in BOOLEAN
<1>1. /\ Len(sessions) \in Nat /\ Len(tokens) \in Nat
      /\ Len(sessions') \in Nat /\ Len(tokens') \in Nat
  BY LenProperties DEF IInv, TypeInv, Grows
<1>2. /\ Len(sessions) <= Len(sessions') /\ Len(tokens) <= Len(tokens')
      /\ \A i \in 1..Len(sessions) : sessions'[i].user = sessions[i].user
      /\ \A i \in 1..Len(tokens) : tokens'[i].user = tokens[i].user
  BY DEF Grows
<1>3. cookie \in 0..Len(sessions) /\ accessToken \in 0..Len(tokens)
  BY DEF IInv, TypeInv
<1>4. cookie' \in 0..Len(sessions') /\ accessToken' \in 0..Len(tokens')
  BY <1>1, <1>2, <1>3
<1>5. SettledInv'
  BY <1>1, <1>2, <1>3 DEF SettledInv, IInv
<1>6. QED
  BY <1>4, <1>5 DEF IInv, TypeInv

\* The server grants a login, the mount effect's refresh, or a logout.
LEMMA Granting ==
  ASSUME IInv, Grows, NEW c \in Callers, c \in Busy,
         calls[c].kind # "api", calls[c].stage = "sent",
         NEW auth \in Nat, NEW cook \in Nat,
         auth <= Len(tokens'), cook <= Len(sessions'),
         calls' = [d \in Callers |-> calls'[d]],
         calls'[c] = [calls[c] EXCEPT !.stage = "granted", !.auth = auth,
                                      !.cookie = cook],
         calls[c].kind = "login" =>
           /\ auth # 0 /\ tokens'[auth].user = calls[c].as
           /\ cook # 0 /\ sessions'[cook].user = calls[c].as,
         calls[c].kind = "mount" =>
           /\ auth # 0 /\ cook # 0 /\ cook = calls[c].cookie
           /\ tokens'[auth].user = sessions'[cook].user,
         UNCHANGED <<cookie, accessToken, user, settled>>,
         \A d \in Callers \ {c} : d \notin Busy => calls'[d] = calls[d],
         \A d \in (Callers \ {c}) \cap Busy : /\ Same(calls[d], calls'[d])
                                            /\ Follows(calls[d], calls'[d])
  PROVE  IInv'
<1>1. calls[c] \in CallRow /\ CallOk(calls[c])
  BY Under
<1>2. calls'[c] \in CallRow /\ calls'[c] \notin EndRow
  BY <1>1 DEF CallRow, EndRow
<1>3. /\ calls'[c].stage = "granted" /\ calls'[c].auth = auth /\ calls'[c].cookie = cook
      /\ calls'[c].kind = calls[c].kind /\ calls'[c].as = calls[c].as
      /\ calls'[c].sure = calls[c].sure
  BY <1>1 DEF CallRow
<1>4. (CalmOk(calls[c]) /\ GrantOk(calls[c]))'
  BY <1>1, <1>3 DEF CalmOk, GrantOk, CallOk
<1>5. SureOk(calls[c])'
  BY <1>1, <1>3 DEF SureOk, CallOk
<1>6. RowOk(calls[c])'
  BY <1>2, <1>3, <1>4, <1>5 DEF RowOk, CallOk
<1>7. calls' \in [Callers -> {Idle} \cup CallRow \cup EndRow]
  <2>1. \A d \in Callers : calls'[d] \in {Idle} \cup CallRow \cup EndRow
    BY <1>2 DEF Same, IInv, TypeInv
  <2>2. QED
    BY <2>1
<1>8. /\ SettledInv' /\ cookie' \in 0..Len(sessions') /\ accessToken' \in 0..Len(tokens')
      /\ user' \in People /\ settled' \in BOOLEAN
  BY SettledKept
<1>9. QED
  BY <1>6, <1>7, <1>8, Step, {c} \in SUBSET Callers

\* The other calls, when the server adds to what it has.
LEMMA OthersSame ==
  ASSUME IInv, UNCHANGED <<cookie, user, settled>>,
         NEW c \in Callers, \A d \in Callers \ {c} : calls'[d] = calls[d],
         \A i \in 1..Len(sessions) : sessions'[i] = sessions[i],
         \A i \in 1..Len(tokens) : tokens'[i] = tokens[i]
  PROVE  \A d \in (Callers \ {c}) \cap Busy : /\ Same(calls[d], calls'[d])
                                            /\ Follows(calls[d], calls'[d])
<1> SUFFICES ASSUME NEW d \in (Callers \ {c}) \cap Busy
             PROVE  Same(calls[d], calls'[d]) /\ Follows(calls[d], calls'[d])
  OBVIOUS
<1>1. Lasts(calls[d])
  BY LastsWhole
<1>2. calls'[d] = IF d \in {} THEN [calls[d] EXCEPT !.calm = FALSE] ELSE calls[d]
  OBVIOUS
<1>3. QED
  BY <1>1, <1>2, CalmLost

LEMMA GrantLogin ==
  ASSUME IInv, NEW c \in Callers, Grants(c), calls[c].kind = "login"
  PROVE  IInv'
<1>1. /\ calls[c] \in CallRow /\ CallOk(calls[c]) /\ c \in Busy
      /\ calls[c].stage = "sent" /\ Len(sessions) \in Nat /\ Len(tokens) \in Nat
      /\ UNCHANGED <<cookie, accessToken, user, settled>>
  BY Under DEF Grants
<1>2. PICK u \in WebUsers : u = calls[c].as
  BY <1>1 DEF CallOk, GrantOk
<1>3. /\ sessions' = Opened(u) /\ tokens' = Signed(u)
      /\ calls' = [calls EXCEPT ![c].stage = "granted", ![c].auth = Len(tokens'),
                                ![c].cookie = Len(sessions')]
  BY <1>2 DEF Grants
<1>4. /\ Grows /\ Len(sessions') = Len(sessions) + 1 /\ Len(tokens') = Len(tokens) + 1
      /\ sessions'[Len(sessions')] = [user |-> u, live |-> TRUE]
      /\ tokens'[Len(tokens')] = [user |-> u, fresh |-> TRUE]
      /\ \A i \in 1..Len(sessions) : sessions'[i] = sessions[i]
      /\ \A i \in 1..Len(tokens) : tokens'[i] = tokens[i]
  BY <1>3, GrowsOpened DEF IInv
<1>5. PICK auth \in Nat, cook \in Nat : auth = Len(tokens') /\ cook = Len(sessions')
  BY <1>1, <1>4
<1>6. /\ calls' = [d \in Callers |-> calls'[d]]
      /\ calls'[c] = [calls[c] EXCEPT !.stage = "granted", !.auth = auth,
                                       !.cookie = cook]
      /\ \A d \in Callers \ {c} : calls'[d] = calls[d]
  BY <1>3, <1>5 DEF IInv, TypeInv
<1>7. auth # 0 /\ cook # 0 /\ auth <= Len(tokens') /\ cook <= Len(sessions')
      /\ tokens'[auth].user = calls[c].as /\ sessions'[cook].user = calls[c].as
  BY <1>1, <1>2, <1>4, <1>5
<1>8. QED
  BY <1>1, <1>4, <1>6, <1>7, OthersSame, Granting

LEMMA GrantMount ==
  ASSUME IInv, NEW c \in Callers, Grants(c), calls[c].kind = "mount"
  PROVE  IInv'
<1>1. /\ calls[c] \in CallRow /\ CallOk(calls[c]) /\ c \in Busy
      /\ calls[c].stage = "sent" /\ Len(sessions) \in Nat /\ Len(tokens) \in Nat
      /\ UNCHANGED <<sessions, cookie, accessToken, user, settled>>
      /\ calls[c].cookie \in 0..Len(sessions) /\ calls[c].cookie # 0
      /\ sessions[calls[c].cookie] \in SessionRow
  BY Under DEF Grants, Live
<1>2. PICK u \in WebUsers : u = sessions[calls[c].cookie].user
  BY <1>1 DEF SessionRow
<1>3. /\ tokens' = Signed(u)
      /\ calls' = [calls EXCEPT ![c].stage = "granted", ![c].auth = Len(tokens')]
  BY <1>2 DEF Grants
<1>4. /\ Grows /\ Len(tokens') = Len(tokens) + 1
      /\ tokens'[Len(tokens')] = [user |-> u, fresh |-> TRUE]
      /\ \A i \in 1..Len(tokens) : tokens'[i] = tokens[i]
  BY <1>1, <1>3, GrowsSigned DEF IInv
<1>5. PICK auth \in Nat, cook \in Nat : auth = Len(tokens') /\ cook = calls[c].cookie
  BY <1>1, <1>4
<1>6. [calls[c] EXCEPT !.stage = "granted", !.auth = auth]
        = [calls[c] EXCEPT !.stage = "granted", !.auth = auth, !.cookie = cook]
  BY <1>1, <1>5 DEF CallRow
<1>7. /\ calls' = [d \in Callers |-> calls'[d]]
      /\ calls'[c] = [calls[c] EXCEPT !.stage = "granted", !.auth = auth,
                                       !.cookie = cook]
      /\ \A d \in Callers \ {c} : calls'[d] = calls[d]
  BY <1>3, <1>5, <1>6 DEF IInv, TypeInv
<1>8. auth # 0 /\ cook # 0 /\ auth <= Len(tokens') /\ cook <= Len(sessions')
      /\ tokens'[auth].user = sessions'[cook].user
  BY <1>1, <1>2, <1>4, <1>5
<1>9. cook = calls[c].cookie /\ calls[c].kind # "login" /\ calls[c].kind # "api"
  BY <1>5
<1>10. \A i \in 1..Len(sessions) : sessions'[i] = sessions[i]
  BY <1>1
<1>11. \A d \in (Callers \ {c}) \cap Busy : /\ Same(calls[d], calls'[d])
                                         /\ Follows(calls[d], calls'[d])
  BY <1>1, <1>4, <1>7, <1>10, OthersSame
<1>12. QED
  BY <1>1, <1>4, <1>7, <1>8, <1>9, <1>11, Granting

LEMMA GrantLogout ==
  ASSUME IInv, NEW c \in Callers, Grants(c), calls[c].kind = "logout"
  PROVE  IInv'
<1>1. /\ calls[c] \in CallRow /\ CallOk(calls[c]) /\ c \in Busy
      /\ calls[c].stage = "sent" /\ Len(sessions) \in Nat /\ Len(tokens) \in Nat
      /\ UNCHANGED <<tokens, cookie, accessToken, user, settled>>
      /\ calls[c].cookie \in 0..Len(sessions) /\ calls[c].auth \in 0..Len(tokens)
  BY Under DEF Grants
<1>2. /\ sessions' = [i \in DOMAIN sessions |->
             IF i = calls[c].cookie THEN [sessions[i] EXCEPT !.live = FALSE]
             ELSE sessions[i]]
      /\ calls' = Uncalm(Callers \ {c}, [calls EXCEPT ![c].stage = "granted"])
  BY DEF Grants
<1>3. DOMAIN sessions = 1..Len(sessions)
  BY LenProperties DEF IInv, TypeInv
<1>4. Grows /\ Len(sessions') = Len(sessions)
  <2>1. CASE calls[c].cookie = 0
    <3>1. sessions' = [i \in 1..Len(sessions) |-> sessions[i]]
      BY <1>2, <1>3, <2>1
    <3>2. sessions' = sessions
      BY <1>3, <3>1 DEF IInv, TypeInv
    <3>3. QED
      BY <1>1, <3>2, GrowsSame DEF IInv
  <2>2. CASE calls[c].cookie # 0
    <3>1. calls[c].cookie \in 1..Len(sessions)
      BY <1>1, <2>2
    <3>2. PICK e : e = [sessions[calls[c].cookie] EXCEPT !.live = FALSE]
      OBVIOUS
    <3>3. sessions' = [sessions EXCEPT ![calls[c].cookie] = e]
      BY <1>2, <1>3, <3>1, <3>2 DEF IInv, TypeInv
    <3>4. QED
      BY <1>1, <3>1, <3>2, <3>3, SessionEnds DEF IInv
  <2>3. QED
    BY <2>1, <2>2
<1>5. PICK auth \in Nat, cook \in Nat : auth = calls[c].auth /\ cook = calls[c].cookie
  BY <1>1
<1>6. [calls[c] EXCEPT !.stage = "granted"]
        = [calls[c] EXCEPT !.stage = "granted", !.auth = auth, !.cookie = cook]
  BY <1>1, <1>5 DEF CallRow
<1>7. /\ calls' = [d \in Callers |-> calls'[d]]
      /\ calls'[c] = [calls[c] EXCEPT !.stage = "granted", !.auth = auth,
                                       !.cookie = cook]
      /\ \A d \in Callers \ {c} : d \notin Busy => calls'[d] = calls[d]
      /\ \A d \in (Callers \ {c}) \cap Busy :
           calls'[d] = [calls[d] EXCEPT !.calm = FALSE]
  BY <1>2, <1>6 DEF IInv, TypeInv, Uncalm
<1>8. ASSUME NEW d \in (Callers \ {c}) \cap Busy
      PROVE  Same(calls[d], calls'[d]) /\ Follows(calls[d], calls'[d])
  <2>1. calls'[d] = IF d \in Callers \ {c} THEN [calls[d] EXCEPT !.calm = FALSE]
                    ELSE calls[d]
    BY <1>7
  <2>2. QED
    BY <1>1, <2>1, CalmLost
<1>9. auth <= Len(tokens') /\ cook <= Len(sessions')
  BY <1>1, <1>4, <1>5
<1>10. QED
  BY <1>1, <1>4, <1>7, <1>8, <1>9, Granting

LEMMA GrantsStep == ASSUME IInv, NEW c \in Callers, Grants(c) PROVE IInv'
BY GrantLogin, GrantMount, GrantLogout DEF Grants

LEMMA UncalmNone ==
  ASSUME TypeInv, NEW c
  PROVE  Uncalm({}, [calls EXCEPT ![c] = Idle]) = [calls EXCEPT ![c] = Idle]
BY DEF Uncalm, TypeInv

LEMMA loginStep == ASSUME IInv, NEW c \in Callers, login(c) PROVE IInv'
<1>1. /\ calls[c] \in CallRow /\ CallOk(calls[c])
      /\ calls[c].auth \in 0..Len(tokens) /\ calls[c].cookie \in 0..Len(sessions)
      /\ calls[c].as \in People
  BY Under DEF login, CallRow
<1>2. PICK S : /\ S = IF Live(cookie)' THEN {} ELSE Callers \ {c}
               /\ calls' = Unsure(Callers \ {c}, Uncalm(S, [calls EXCEPT ![c] = Idle]))
  BY DEF login, Leaves, Live
<1>3. settled' = (Busy = {c})
  BY DEF login, Leaves
<1>4. SettledInv'
  BY <1>1 DEF SettledInv, login, CallOk, GrantOk
<1>5. /\ cookie' \in 0..Len(sessions) /\ accessToken' \in 0..Len(tokens)
      /\ user' \in People /\ UNCHANGED <<sessions, tokens>>
  BY <1>1 DEF login
<1>6. /\ c \notin S /\ settled' \in BOOLEAN /\ (settled' => Busy = {c})
      /\ Callers \ {c} \subseteq S \/ (Live(cookie) => Live(cookie)')
  BY <1>2, <1>3
<1>7. QED
  BY <1>2, <1>4, <1>5, <1>6, LeaveStep

LEMMA mountStep == ASSUME IInv, NEW c \in Callers, mount(c) PROVE IInv'
<1>1. /\ calls[c] \in CallRow /\ CallOk(calls[c])
      /\ calls[c].auth \in 0..Len(tokens) /\ calls[c].cookie \in 0..Len(sessions)
      /\ Len(sessions) \in Nat /\ Len(tokens) \in Nat
      /\ calls[c].auth # 0 => tokens[calls[c].auth] \in TokenRow
      /\ UNCHANGED <<sessions, tokens>> /\ calls[c].kind = "mount"
      /\ cookie \in 0..Len(sessions)
  BY Under DEF mount, IInv, TypeInv
<1>2. CASE calls[c].stage = "granted"
  <2>1. /\ accessToken' = calls[c].auth /\ calls[c].auth # 0
        /\ user' = tokens[calls[c].auth].user /\ UNCHANGED cookie
        /\ settled' = (Busy = {c} /\ calls[c].sure)
    BY <1>1, <1>2 DEF mount, CallOk, GrantOk
  <2>2. calls' = Unsure(Callers \ {c}, Uncalm({}, [calls EXCEPT ![c] = Idle]))
    BY <1>2, UncalmNone DEF mount, IInv
  <2>3. user' \in People
    BY <1>1, <2>1 DEF TokenRow, People
  <2>4. settled' => Busy = {c} /\ settled
    BY <1>1, <2>1 DEF CallOk, SureOk
  <2>5. settled' /\ cookie # 0 => sessions[cookie].user = user'
    BY <1>1, <1>2, <2>1, <2>4 DEF CallOk, SureOk, GrantOk
  <2>6. SettledInv'
    BY <1>1, <2>1, <2>5 DEF SettledInv
  <2>7. Live(cookie) => Live(cookie)'
    BY <1>1, <2>1 DEF Live
  <2>8. settled' \in BOOLEAN
    BY <2>1
  <2>9. QED
    BY <1>1, <2>1, <2>2, <2>3, <2>4, <2>6, <2>7, <2>8, LeaveStep
<1>3. CASE calls[c].stage = "refused"
  <2>1. /\ cookie' = 0 /\ accessToken' = 0 /\ user' = Nobody
        /\ settled' = (Busy = {c})
        /\ calls' = Unsure(Callers \ {c},
                          Uncalm(Callers \ {c}, [calls EXCEPT ![c] = Idle]))
    BY <1>3 DEF mount, Leaves
  <2>2. SettledInv' /\ user' \in People
    BY <2>1 DEF SettledInv, People
  <2>3. /\ cookie' \in 0..Len(sessions) /\ accessToken' \in 0..Len(tokens)
        /\ settled' \in BOOLEAN /\ (settled' => Busy = {c})
    <3>1. 0 \in 0..Len(sessions) /\ 0 \in 0..Len(tokens)
      BY <1>1
    <3>2. settled' \in BOOLEAN /\ (settled' => Busy = {c})
      BY <2>1
    <3>3. QED
      BY <2>1, <3>1, <3>2
  <2>4. QED
    BY <1>1, <2>1, <2>2, <2>3, LeaveStep
<1>4. QED
  BY <1>2, <1>3 DEF mount

LEMMA logoutStep == ASSUME IInv, NEW c \in Callers, logout(c) PROVE IInv'
<1>1. /\ accessToken' = 0 /\ user' = Nobody /\ settled' = (Busy = {c})
      /\ cookie' \in {0, cookie} /\ UNCHANGED <<sessions, tokens>>
      /\ 0 \in 0..Len(sessions) /\ 0 \in 0..Len(tokens) /\ cookie \in 0..Len(sessions)
  BY LenProperties DEF logout, Leaves, IInv, TypeInv
<1>2. PICK S : /\ S = IF cookie' = 0 THEN Callers \ {c} ELSE {}
               /\ calls' = Unsure(Callers \ {c}, Uncalm(S, [calls EXCEPT ![c] = Idle]))
  BY DEF logout, Leaves
<1>3. SettledInv' /\ user' \in People
  BY <1>1 DEF SettledInv, People
<1>4. Callers \ {c} \subseteq S \/ (Live(cookie) => Live(cookie)')
  BY <1>1, <1>2 DEF Live
<1>5. /\ cookie' \in 0..Len(sessions) /\ accessToken' \in 0..Len(tokens)
      /\ c \notin S /\ settled' \in BOOLEAN /\ (settled' => Busy = {c})
  BY <1>1, <1>2
<1>6. QED
  BY <1>1, <1>2, <1>3, <1>4, <1>5, LeaveStep

LEMMA RefreshRefusedStep == ASSUME IInv, NEW c \in Callers, RefreshRefused(c) PROVE IInv'
<1>1. /\ calls[c] \in CallRow /\ CallOk(calls[c]) /\ c \in Busy
      /\ calls[c].stage = "refreshed" /\ calls[c].auth = 0
      /\ 0 \in 0..Len(sessions) /\ 0 \in 0..Len(tokens)
      /\ cookie' = 0 /\ accessToken' = 0 /\ UNCHANGED <<sessions, tokens>>
  BY Under DEF RefreshRefused
<1>2. CASE calls[c].kind = "logout"
  <2>1. /\ user' = Nobody /\ settled' = (Busy = {c})
        /\ calls' = Unsure(Callers \ {c},
                          Uncalm(Callers \ {c}, [calls EXCEPT ![c] = Idle]))
    BY <1>2 DEF RefreshRefused, Leaves
  <2>2. SettledInv' /\ user' \in People
    BY <2>1 DEF SettledInv, People
  <2>3. QED
    BY <1>1, <2>1, <2>2, LeaveStep
<1>3. CASE calls[c].kind # "logout"
  <2>1. PICK q : /\ q = IF calls[c].kind = "api" THEN Ended(c, Nobody, TRUE) ELSE Idle
                 /\ calls' = Uncalm(Callers \ {c}, [calls EXCEPT ![c] = q])
    BY <1>3 DEF RefreshRefused
  <2>2. UNCHANGED <<user, settled>>
    BY <1>3 DEF RefreshRefused
  <2>3. calls[c].kind = "api" => ~calls[c].calm
    BY <1>1 DEF CallOk, CalmOk, Authentic
  <2>4. q = Idle \/ (q \in EndRow /\ EndOk(q))
    BY <1>1, <2>1, <2>3, EndedRefused
  <2>5. /\ calls' = [d \in Callers |-> calls'[d]] /\ calls'[c] = q
        /\ \A d \in Callers \ {c} : d \notin Busy => calls'[d] = calls[d]
        /\ \A d \in (Callers \ {c}) \cap Busy :
             calls'[d] = [calls[d] EXCEPT !.calm = FALSE]
    BY <2>1 DEF IInv, TypeInv, Uncalm
  <2>6. ASSUME NEW d \in (Callers \ {c}) \cap Busy
        PROVE  Same(calls[d], calls'[d]) /\ Follows(calls[d], calls'[d])
    <3>1. calls'[d] = IF d \in Callers \ {c} THEN [calls[d] EXCEPT !.calm = FALSE]
                      ELSE calls[d]
      BY <2>5
    <3>2. QED
      BY <1>1, <2>2, <3>1, CalmLost
  <2>7. RowOk(calls[c])'
    BY <2>4, <2>5, BusyRows DEF RowOk, EndOk, IInv
  <2>8. calls' \in [Callers -> {Idle} \cup CallRow \cup EndRow]
    <3>1. \A d \in Callers : calls'[d] \in {Idle} \cup CallRow \cup EndRow
      BY <2>4, <2>5, <2>6 DEF Same, IInv, TypeInv
    <3>2. QED
      BY <2>5, <3>1
  <2>9. Grows
    BY <1>1, GrowsSame DEF IInv
  <2>10. /\ SettledInv' /\ cookie' \in 0..Len(sessions')
         /\ accessToken' \in 0..Len(tokens') /\ user' \in People /\ settled' \in BOOLEAN
    BY <1>1, <2>2, <2>9, SettledKept
  <2>11. QED
    BY <2>5, <2>6, <2>7, <2>8, <2>9, <2>10, Step, {c} \in SUBSET Callers
<1>4. QED
  BY <1>2, <1>3

LEMMA LoseStep == ASSUME IInv, NEW c \in Callers, Lose(c) PROVE IInv'
<1>1. /\ UNCHANGED <<sessions, tokens, cookie>> /\ accessToken' \in {0, accessToken}
      /\ 0 \in 0..Len(tokens) /\ cookie \in 0..Len(sessions)
      /\ accessToken \in 0..Len(tokens)
  BY LenProperties DEF Lose, IInv, TypeInv
<1>2. CASE calls[c].kind \in {"logout", "mount"}
  <2>1. /\ accessToken' = 0 /\ user' = Nobody /\ settled' = (Busy = {c})
        /\ calls' = Unsure(Callers \ {c}, Uncalm({}, [calls EXCEPT ![c] = Idle]))
    BY <1>2, UncalmNone DEF Lose, Leaves, IInv
  <2>2. SettledInv' /\ user' \in People /\ (Live(cookie) => Live(cookie)')
    BY <1>1, <2>1 DEF SettledInv, People, Live
  <2>3. QED
    BY <1>1, <2>1, <2>2, LeaveStep
<1>3. CASE calls[c].kind \notin {"logout", "mount"}
  <2>1. calls' = [calls EXCEPT ![c] = Idle] /\ UNCHANGED <<user, settled>>
    BY <1>3 DEF Lose
  <2>2. QED
    BY <1>1, <2>1, Ending
<1>4. QED
  BY <1>2, <1>3

-----------------------------------------------------------------------------
(* What happens around the calls.                                          *)

LEMMA ExpireTokenStep == ASSUME IInv, ExpireToken PROVE IInv'
<1>1. PICK t \in DOMAIN tokens :
        /\ tokens' = [tokens EXCEPT ![t].fresh = FALSE]
        /\ calls' = Uncalm({c \in Busy : calls[c].auth = t /\
              (calls[c].stage = "refreshed" \/ calls[c].isRetry)}, calls)
        /\ UNCHANGED <<sessions, cookie, accessToken, user, settled>>
  BY DEF ExpireToken
<1>2. t \in 1..Len(tokens) /\ Len(tokens) \in Nat
  BY LenProperties DEF IInv, TypeInv
<1>3. PICK e : e = [tokens[t] EXCEPT !.fresh = FALSE]
  OBVIOUS
<1>4. tokens' = [tokens EXCEPT ![t] = e]
  BY <1>1, <1>3
<1>5. Grows /\ \A j \in 1..Len(tokens) : j # t => tokens'[j] = tokens[j]
  BY <1>1, <1>2, <1>3, <1>4, TokenExpires DEF IInv
<1> DEFINE S == {c \in Busy : calls[c].auth = t /\
                   (calls[c].stage = "refreshed" \/ calls[c].isRetry)}
<1>6. /\ calls' = [d \in Callers |-> calls'[d]]
      /\ \A d \in Callers : d \notin Busy => calls'[d] = calls[d]
      /\ \A d \in Callers : d \in Busy =>
           calls'[d] = IF d \in S THEN [calls[d] EXCEPT !.calm = FALSE] ELSE calls[d]
  BY <1>1 DEF Uncalm
<1>7. ASSUME NEW d \in Callers, d \in Busy
      PROVE  Same(calls[d], calls'[d]) /\ Follows(calls[d], calls'[d])
  <2>1. calls[d].auth \in 0..Len(tokens)
    BY <1>7, Under
  <2>2. d \notin S => Lasts(calls[d])
    BY <1>1, <1>2, <1>5, <1>7, <2>1 DEF Lasts, Live, Authentic
  <2>3. QED
    BY <1>1, <1>6, <1>7, <2>2, CalmLost
<1>8. calls' \in [Callers -> {Idle} \cup CallRow \cup EndRow]
  <2>1. \A d \in Callers : calls'[d] \in {Idle} \cup CallRow \cup EndRow
    BY <1>6, <1>7 DEF Same, IInv, TypeInv
  <2>2. QED
    BY <1>6, <2>1
<1>9. /\ SettledInv' /\ cookie' \in 0..Len(sessions') /\ accessToken' \in 0..Len(tokens')
      /\ user' \in People /\ settled' \in BOOLEAN
  BY <1>1, <1>5, SettledKept
<1>10. QED
  BY <1>5, <1>6, <1>7, <1>8, <1>9, Step, {} \in SUBSET Callers

LEMMA EndSessionStep == ASSUME IInv, EndSession PROVE IInv'
<1>1. PICK i \in DOMAIN sessions :
        /\ sessions' = [sessions EXCEPT ![i].live = FALSE]
        /\ calls' = Uncalm(Callers, calls)
        /\ UNCHANGED <<tokens, cookie, accessToken, user, settled>>
  BY DEF EndSession
<1>2. i \in 1..Len(sessions) /\ Len(sessions) \in Nat
  BY LenProperties DEF IInv, TypeInv
<1>3. PICK e : e = [sessions[i] EXCEPT !.live = FALSE]
  OBVIOUS
<1>4. sessions' = [sessions EXCEPT ![i] = e]
  BY <1>1, <1>3
<1>5. Grows
  BY <1>1, <1>2, <1>3, <1>4, SessionEnds DEF IInv
<1>6. /\ calls' = [d \in Callers |-> calls'[d]]
      /\ \A d \in Callers : d \notin Busy => calls'[d] = calls[d]
      /\ \A d \in Callers : d \in Busy =>
           calls'[d] = IF d \in Callers THEN [calls[d] EXCEPT !.calm = FALSE]
                       ELSE calls[d]
  BY <1>1 DEF Uncalm
<1>7. ASSUME NEW d \in Callers, d \in Busy
      PROVE  Same(calls[d], calls'[d]) /\ Follows(calls[d], calls'[d])
  BY <1>1, <1>6, <1>7, CalmLost
<1>8. calls' \in [Callers -> {Idle} \cup CallRow \cup EndRow]
  <2>1. \A d \in Callers : calls'[d] \in {Idle} \cup CallRow \cup EndRow
    BY <1>6, <1>7 DEF Same, IInv, TypeInv
  <2>2. QED
    BY <1>6, <2>1
<1>9. /\ SettledInv' /\ cookie' \in 0..Len(sessions') /\ accessToken' \in 0..Len(tokens')
      /\ user' \in People /\ settled' \in BOOLEAN
  BY <1>1, <1>5, SettledKept
<1>10. QED
  BY <1>5, <1>6, <1>7, <1>8, <1>9, Step, {} \in SUBSET Callers

LEMMA OtherTabStep == ASSUME IInv, OtherTab PROVE IInv'
<1>1. PICK u \in WebUsers :
        /\ sessions' = Opened(u) /\ cookie' = Len(sessions')
        /\ settled' = FALSE /\ calls' = Unsure(Callers, calls)
        /\ UNCHANGED <<tokens, accessToken, user>>
  BY DEF OtherTab
<1>2. Len(sessions) \in Nat /\ Len(tokens) \in Nat /\ accessToken \in 0..Len(tokens)
  BY LenProperties DEF IInv, TypeInv
<1>3. /\ Grows /\ Len(sessions') = Len(sessions) + 1
      /\ sessions'[Len(sessions')] = [user |-> u, live |-> TRUE]
      /\ \A i \in 1..Len(sessions) : sessions'[i] = sessions[i]
  BY <1>1, GrowsOpened DEF IInv
<1>4. Live(cookie)'
  BY <1>1, <1>2, <1>3 DEF Live
<1>5. /\ calls' = [d \in Callers |-> calls'[d]]
      /\ \A d \in Callers : d \notin Busy => calls'[d] = calls[d]
      /\ \A d \in Callers : d \in Busy => calls'[d] = [calls[d] EXCEPT !.sure = FALSE]
  BY <1>1 DEF Unsure
<1>6. ASSUME NEW d \in Callers, d \in Busy
      PROVE  Same(calls[d], calls'[d]) /\ Follows(calls[d], calls'[d])
  <2>1. /\ calls[d] \in CallRow /\ calls[d].cookie \in 0..Len(sessions)
        /\ calls'[d] = [calls[d] EXCEPT !.sure = FALSE]
    BY <1>5, <1>6, Under
  <2>2. Same(calls[d], calls'[d])
    BY <2>1 DEF Same, CallRow
  <2>3. calls'[d].sure = FALSE /\ calls'[d].calm = calls[d].calm
    BY <2>1 DEF CallRow
  <2>4. Lasts(calls[d])
    BY <1>1, <1>2, <1>3, <1>4, <2>1 DEF Lasts, Live, Authentic
  <2>5. QED
    BY <1>1, <2>2, <2>3, <2>4 DEF Follows
<1>7. calls' \in [Callers -> {Idle} \cup CallRow \cup EndRow]
  <2>1. \A d \in Callers : calls'[d] \in {Idle} \cup CallRow \cup EndRow
    BY <1>5, <1>6 DEF Same, IInv, TypeInv
  <2>2. QED
    BY <1>5, <2>1
<1>8. /\ cookie' \in 0..Len(sessions') /\ accessToken' \in 0..Len(tokens')
      /\ user' \in People /\ settled' \in BOOLEAN /\ SettledInv'
  <2>1. cookie' \in 0..Len(sessions') /\ accessToken' \in 0..Len(tokens')
    BY <1>1, <1>2, <1>3
  <2>2. user' \in People /\ settled' \in BOOLEAN
    BY <1>1 DEF IInv, TypeInv
  <2>3. SettledInv'
    BY <1>1 DEF SettledInv
  <2>4. QED
    BY <2>1, <2>2, <2>3
<1>9. QED
  BY <1>3, <1>5, <1>6, <1>7, <1>8, Step, {} \in SUBSET Callers

LEMMA ReloadStep == ASSUME IInv, Reload PROVE IInv'
<1>1. PICK c \in Callers :
        /\ accessToken' = 0 /\ user' = Nobody /\ settled' = TRUE
        /\ calls' = [d \in Callers |-> IF d # c THEN Idle
                 ELSE Request("mount", Nobody, FALSE, Live(cookie), TRUE)]
        /\ UNCHANGED <<sessions, tokens, cookie>>
  BY DEF Reload
<1>2. Len(sessions) \in Nat /\ Len(tokens) \in Nat /\ cookie \in 0..Len(sessions)
  BY LenProperties DEF IInv, TypeInv
<1>3. PICK calm \in BOOLEAN : calm = Live(cookie)
  BY DEF Live
<1>4. PICK cook \in Nat : cook = cookie
  BY <1>2
<1>5. PICK q : q = [stage |-> "sent", kind |-> "mount", as |-> Nobody, isRetry |-> FALSE,
                    auth |-> 0, cookie |-> cook, calm |-> calm, sure |-> TRUE]
  OBVIOUS
<1>6. calls' = [d \in Callers |-> IF d # c THEN Idle ELSE q]
  BY <1>1, <1>3, <1>4, <1>5 DEF Request
<1>7. q \in CallRow /\ q \notin EndRow /\ Idle \notin CallRow /\ Idle \notin EndRow
  BY <1>5 DEF CallRow, EndRow, Idle, People
<1>8. /\ calls'[c] = q /\ q.stage = "sent" /\ q.kind = "mount" /\ q.auth = 0
      /\ q.cookie = cook /\ q.sure = TRUE
  BY <1>5, <1>6
<1>9. CallOk(calls[c])'
  <2>1. (CalmOk(calls[c]) /\ GrantOk(calls[c]))'
    BY <1>8 DEF CalmOk, GrantOk
  <2>2. SureOk(calls[c])'
    BY <1>1, <1>4, <1>8 DEF SureOk
  <2>3. calls'[c].auth = 0 /\ calls'[c].cookie = cookie
    BY <1>4, <1>8
  <2>4. calls'[c].auth <= Len(tokens) /\ calls'[c].cookie <= Len(sessions)
    BY <1>2, <2>3
  <2>5. (calls[c].auth <= Len(tokens) /\ calls[c].cookie <= Len(sessions))'
    BY <1>1, <2>4
  <2>6. QED
    BY <2>1, <2>2, <2>5 DEF CallOk
<1>10. \A d \in Callers : RowOk(calls[d])'
  BY <1>6, <1>7, <1>8, <1>9 DEF RowOk
<1>11. calls' \in [Callers -> {Idle} \cup CallRow \cup EndRow]
  BY <1>6, <1>7
<1>12. SettledInv' /\ TypeInv'
  <2>1. SettledInv' /\ user' \in People /\ settled' \in BOOLEAN
    BY <1>1 DEF SettledInv, People
  <2>2. accessToken' \in 0..Len(tokens)
    BY <1>1, <1>2
  <2>3. QED
    BY <1>1, <1>11, <2>1, <2>2 DEF TypeInv, IInv
<1>13. QED
  BY <1>10, <1>12 DEF IInv

-----------------------------------------------------------------------------
(* Theorems.                                                               *)

\* The inductive invariant of the session.
THEOREM Invariance == Spec => []IInv
<1>1. IInv /\ [WebNext]_webVars => IInv'
  <2> SUFFICES ASSUME IInv, [WebNext]_webVars PROVE IInv'
    OBVIOUS
  <2>1. ASSUME NEW c \in Callers, CallerStep(c) PROVE IInv'
    BY <2>1, CallStep, RefuseStep, AnswerStep, GrantsStep, loginStep, mountStep,
       logoutStep, GiveUpStep, tryRefreshStep, refreshStep, RefreshedStep,
       RefreshRefusedStep, LoseStep DEF CallerStep
  <2>2. CASE UNCHANGED sessionVars
    BY <2>2 DEF sessionVars, IInv, TypeInv, SettledInv, RowOk, CallOk, EndOk, CalmOk,
       GrantOk, SureOk, Live, Authentic
  <2>3. CASE SessionNext
    BY <2>1, <2>3, ExpireTokenStep, EndSessionStep, OtherTabStep, ReloadStep
       DEF SessionNext
  <2>4. QED
    BY <2>2, <2>3 DEF WebNext, webVars
<1>2. QED
  BY <1>1, InitInv, PTL DEF Spec, WebInit

\* A page's call is refused for want of a session only if there was none,
\* however many calls refresh and retry at the same time.
THEOREM RefusalCorrect == Spec => []RefusedOnlyWithoutSession
<1>1. IInv => RefusedOnlyWithoutSession
  BY DEF IInv, TypeInv, RowOk, EndOk, RefusedOnlyWithoutSession, CallRow, EndRow, Idle
<1>2. QED
  BY <1>1, Invariance, PTL

\* What a page is answered is what the user it shows may see, unless another
\* tab or a login or logout of this one came between.
THEOREM AnswerCorrect == Spec => []AnswersAreForShownUser
<1>1. IInv => AnswersAreForShownUser
  BY DEF IInv, TypeInv, RowOk, EndOk, AnswersAreForShownUser, CallRow, EndRow, Idle
<1>2. QED
  BY <1>1, Invariance, PTL
=============================================================================
