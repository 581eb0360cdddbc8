----------------------------- MODULE WebSession -----------------------------
(***************************************************************************)
(* The session of one browser tab: an access token in memory, the refresh  *)
(* cookie that all tabs share, the user that auth-context.js shows, and    *)
(* calls that answer 401 with one silent refresh and one retry             *)
(* (api-client.js).  Calls run at the same time, each with a refresh of    *)
(* its own.                                                                *)
(*                                                                         *)
(* Left out: what a call does (WebPage), refusals other than 401, and the  *)
(* moment between an answer's cookie and the code that reads its body.     *)
(***************************************************************************)
EXTENDS Naturals, Sequences

CONSTANTS Callers,       \* calls that may be under way at once
          WebUsers,      \* people who sign in with this browser
          Nobody,
          MaxSessions,   \* bound on the sessions that are opened
          MaxTokens,     \* bound on the access tokens that are signed
          MaxSurprises   \* bound on what happens around the calls

VARIABLES sessions,     \* sessions[i]: whose it is, and whether it is live
          tokens,       \* tokens[i]: whose it is, and whether it has expired
          cookie,       \* the session the browser's cookie names, 0 for none
          accessToken,  \* the token in memory, 0 for null
          user,         \* the user that the tab shows
          calls,        \* calls[c]: a call of the tab
          settled,      \* does the tab use its cookie alone, with no call left
                        \* from before its last login or logout?
          surprises     \* how often something happened around the calls

sessionVars == <<sessions, tokens, cookie, accessToken, user, calls, settled,
                 surprises>>

\* A refresh by the session of cookie i succeeds.
Live(i) == i # 0 /\ sessions[i].live

Idle == [stage |-> "idle"]
\* How the call that c made for a page ended: `by` is the user it ran as, `refused` that it was
\* answered 401.
Ended(c, by, refused) ==
  [stage |-> "ended", as |-> calls[c].as, by |-> by, refused |-> refused,
   calm |-> calls[c].calm, sure |-> calls[c].sure]
Busy == {c \in Callers : calls[c].stage \notin {"idle", "ended"}}

\* Calls after something that may explain a refusal (of the calls in `some`).
Uncalm(some, cs) ==
  [c \in Callers |-> IF c \in some /\ c \in Busy THEN [cs[c] EXCEPT !.calm = FALSE]
                     ELSE cs[c]]
Unsure(some, cs) ==
  [c \in Callers |-> IF c \in some /\ c \in Busy THEN [cs[c] EXCEPT !.sure = FALSE]
                     ELSE cs[c]]

\* apiFetch: the token and the cookie of this moment go with the request, to
\* routes that look at them.
Request(kind, as, isRetry, calm, sure) ==
  [stage |-> "sent", kind |-> kind, as |-> as, isRetry |-> isRetry,
   auth   |-> IF kind \in {"api", "logout"} THEN accessToken' ELSE 0,
   cookie |-> IF kind \in {"mount", "logout"} THEN cookie ELSE 0,
   calm   |-> calm, sure |-> sure]

\* The tab is opened: the mount effect tries to refresh.
SessionInit ==
  /\ \E first \in WebUsers :
       /\ sessions = << [user |-> first, live |-> TRUE] >>
       /\ cookie = 1
  /\ tokens = << >> /\ accessToken = 0
  /\ user = Nobody
  /\ \E c \in Callers : calls = [d \in Callers |-> IF d # c THEN Idle
       ELSE [stage |-> "sent", kind |-> "mount", as |-> Nobody, auth |-> 0,
             cookie |-> 1, isRetry |-> FALSE, calm |-> TRUE, sure |-> TRUE]]
  /\ settled = TRUE
  /\ surprises = 0

-----------------------------------------------------------------------------
\* A page calls the API for the user it shows.
Call(c, kind, as) ==
  /\ c \notin Busy
  /\ UNCHANGED accessToken
  /\ calls' = [calls EXCEPT ![c] =
                 Request(kind, as, FALSE, Live(cookie), settled)]
  /\ UNCHANGED <<sessions, tokens, cookie, user, settled, surprises>>

StartCall(c)   == user # Nobody /\ Call(c, "api", user)
StartLogin(c)  == \E u \in WebUsers : Call(c, "login", u)
StartLogout(c) == user # Nobody /\ Call(c, "logout", user)

\* A session is opened, a token signed.
Opened(u) == Append(sessions, [user |-> u, live |-> TRUE])
Signed(u) == Append(tokens, [user |-> u, fresh |-> TRUE])

Authentic(t) == t # 0 /\ tokens[t].fresh

\* require-auth: no valid access token, 401.
Refuse(c) ==
  /\ c \in Busy /\ calls[c].stage = "sent"
  /\ \/ calls[c].kind \in {"api", "logout"} /\ ~Authentic(calls[c].auth)
     \/ calls[c].kind = "login"           \* a wrong password or code
     \/ calls[c].kind = "mount" /\ ~Live(calls[c].cookie)
  /\ calls' = [calls EXCEPT ![c].stage = "refused", ![c].auth = 0, ![c].cookie = 0]
  /\ UNCHANGED <<sessions, tokens, cookie, accessToken, user, settled, surprises>>

\* A call of a page is answered.
Answer(c) ==
  /\ c \in Busy /\ calls[c].stage = "sent" /\ calls[c].kind = "api"
  /\ Authentic(calls[c].auth)
  /\ calls' = [calls EXCEPT ![c] = Ended(c, tokens[calls[c].auth].user, FALSE)]
  /\ UNCHANGED <<sessions, tokens, cookie, accessToken, user, settled, surprises>>

\* The server opens a session, refreshes one, or revokes one; its answer is on
\* the way.
Grants(c) ==
  /\ c \in Busy /\ calls[c].stage = "sent"
  /\ \/ /\ calls[c].kind = "login" /\ Len(sessions) < MaxSessions
        /\ sessions' = Opened(calls[c].as) /\ tokens' = Signed(calls[c].as)
        /\ calls' = [calls EXCEPT ![c].stage = "granted", ![c].auth = Len(tokens'),
                                  ![c].cookie = Len(sessions')]
     \/ /\ calls[c].kind = "mount" /\ Live(calls[c].cookie)
        /\ tokens' = Signed(sessions[calls[c].cookie].user)
        /\ calls' = [calls EXCEPT ![c].stage = "granted", ![c].auth = Len(tokens')]
        /\ UNCHANGED sessions
     \/ /\ calls[c].kind = "logout" /\ Authentic(calls[c].auth)
        /\ sessions' = [i \in DOMAIN sessions |->
             IF i = calls[c].cookie THEN [sessions[i] EXCEPT !.live = FALSE]
             ELSE sessions[i]]
        /\ calls' = Uncalm(Callers \ {c}, [calls EXCEPT ![c].stage = "granted"])
        /\ UNCHANGED tokens
  /\ Len(tokens') <= MaxTokens
  /\ UNCHANGED <<cookie, accessToken, user, settled, surprises>>

-----------------------------------------------------------------------------
\* What is under way while the tab changes user is no more sure of its own.
Leaves(c, cs) ==
  /\ settled' = (Busy = {c})
  /\ calls' = Unsure(Callers \ {c}, cs)

\* Mutant: the token of an earlier login is kept.
loginShowsUser(c) ==
  /\ c \in Busy /\ calls[c].stage = "granted" /\ calls[c].kind = "login"
  /\ cookie' = calls[c].cookie
  /\ user' = calls[c].as
  /\ Leaves(c, Uncalm(IF Live(cookie') THEN {} ELSE Callers \ {c},
                 [calls EXCEPT ![c] = Idle]))
  /\ UNCHANGED <<sessions, tokens, accessToken, surprises>>

\* login: setAccessToken, setUser.
login(c) ==
  /\ c \in Busy /\ calls[c].stage = "granted" /\ calls[c].kind = "login"
  /\ cookie' = calls[c].cookie
  /\ accessToken' = calls[c].auth
  /\ user' = calls[c].as
  /\ Leaves(c, Uncalm(IF Live(cookie') THEN {} ELSE Callers \ {c},
                 [calls EXCEPT ![c] = Idle]))
  /\ UNCHANGED <<sessions, tokens, surprises>>

\* The mount effect: the answer's token and user, or neither.
mount(c) ==
  /\ c \in Busy /\ calls[c].kind = "mount"
  /\ \/ /\ calls[c].stage = "granted"
        /\ accessToken' = calls[c].auth
        /\ user' = tokens[calls[c].auth].user
        /\ settled' = (Busy = {c} /\ calls[c].sure)
        /\ calls' = Unsure(Callers \ {c},
                           [calls EXCEPT ![c] = Idle])
        /\ UNCHANGED cookie
     \/ /\ calls[c].stage = "refused"
        /\ cookie' = 0 /\ accessToken' = 0 /\ user' = Nobody
        /\ Leaves(c, Uncalm(Callers \ {c}, [calls EXCEPT ![c] = Idle]))
  /\ UNCHANGED <<sessions, tokens, surprises>>

\* finally: a logout clears the token and the user, whatever its answer.
logout(c) ==
  /\ c \in Busy /\ calls[c].kind = "logout"
  /\ \/ calls[c].stage = "granted" /\ cookie' = 0
     \/ calls[c].stage = "refused" /\ calls[c].isRetry /\ UNCHANGED cookie
  /\ accessToken' = 0 /\ user' = Nobody
  /\ Leaves(c, Uncalm(IF cookie' = 0 THEN Callers \ {c} ELSE {},
                      [calls EXCEPT ![c] = Idle]))
  /\ UNCHANGED <<sessions, tokens, surprises>>

\* A second 401 is final.
GiveUp(c) ==
  /\ c \in Busy /\ calls[c].stage = "refused" /\ calls[c].isRetry
  /\ \/ calls[c].kind = "api" /\ calls' = [calls EXCEPT ![c] = Ended(c, Nobody, TRUE)]
     \/ calls[c].kind = "login" /\ calls' = [calls EXCEPT ![c] = Idle]
  /\ UNCHANGED <<sessions, tokens, cookie, accessToken, user, settled, surprises>>

-----------------------------------------------------------------------------
\* tryRefresh: every refused call sends a refresh of its own.
tryRefresh(c) ==
  /\ c \in Busy /\ calls[c].stage = "refused" /\ ~calls[c].isRetry
  /\ calls[c].kind # "mount"
  /\ calls' = [calls EXCEPT ![c].stage = "refreshing", ![c].cookie = cookie]
  /\ UNCHANGED <<sessions, tokens, cookie, accessToken, user, settled, surprises>>

\* POST /auth/refresh, on the server.
refresh(c) ==
  /\ c \in Busy /\ calls[c].stage = "refreshing"
  /\ \/ /\ Live(calls[c].cookie) /\ Len(tokens) < MaxTokens
        /\ tokens' = Signed(sessions[calls[c].cookie].user)
        /\ calls' = [calls EXCEPT ![c].stage = "refreshed", ![c].auth = Len(tokens'),
                                  ![c].cookie = 0]
     \/ /\ ~Live(calls[c].cookie)
        /\ calls' = [calls EXCEPT ![c].stage = "refreshed", ![c].cookie = 0]
        /\ UNCHANGED tokens
  /\ UNCHANGED <<sessions, cookie, accessToken, user, settled, surprises>>

\* Mutant: the new token is not put on the retry.
RetryWithoutToken(c) ==
  [calls[c] EXCEPT !.stage = "sent", !.isRetry = TRUE, !.auth = 0]

\* The request of c, sent again with the token of now.
Retry(c) == Request(calls[c].kind, calls[c].as, TRUE, calls[c].calm, calls[c].sure)

\* The refresh succeeded: the new token is kept and the call is sent again.
Refreshed(c) ==
  /\ c \in Busy /\ calls[c].stage = "refreshed" /\ calls[c].auth # 0
  /\ accessToken' = calls[c].auth
  /\ calls' = [calls EXCEPT ![c] = Retry(c)]
  /\ UNCHANGED <<sessions, tokens, cookie, user, settled, surprises>>

\* The refresh was refused, and the answer clears the cookie, whichever it is
\* by now: the call fails with its first 401.
RefreshRefused(c) ==
  /\ c \in Busy /\ calls[c].stage = "refreshed" /\ calls[c].auth = 0
  /\ cookie' = 0 /\ accessToken' = 0
  /\ user' = IF calls[c].kind = "logout" THEN Nobody ELSE user
  /\ LET end == IF calls[c].kind = "api" THEN Ended(c, Nobody, TRUE) ELSE Idle
         cs  == Uncalm(Callers \ {c}, [calls EXCEPT ![c] = end])
     IN IF calls[c].kind = "logout" THEN Leaves(c, cs)
        ELSE calls' = cs /\ UNCHANGED settled
  /\ UNCHANGED <<sessions, tokens, surprises>>

-----------------------------------------------------------------------------
Surprise == surprises < MaxSurprises /\ surprises' = surprises + 1

\* An access token expires; a call that was retried with it has an excuse.
ExpireToken == Surprise /\ \E t \in DOMAIN tokens :
  /\ tokens[t].fresh
  /\ tokens' = [tokens EXCEPT ![t].fresh = FALSE]
  /\ calls' = Uncalm({c \in Busy : calls[c].auth = t /\
                        (calls[c].stage = "refreshed" \/ calls[c].isRetry)}, calls)
  /\ UNCHANGED <<sessions, cookie, accessToken, user, settled>>

\* The session expires, is revoked, or its account is no longer ACTIVE.
EndSession == Surprise /\ \E i \in DOMAIN sessions :
  /\ sessions[i].live
  /\ sessions' = [sessions EXCEPT ![i].live = FALSE]
  /\ calls' = Uncalm(Callers, calls)
  /\ UNCHANGED <<tokens, cookie, accessToken, user, settled>>

\* Another tab logs in: the cookie is the new session's.
OtherTab == Surprise /\ \E u \in WebUsers :
  /\ Len(sessions) < MaxSessions
  /\ sessions' = Opened(u) /\ cookie' = Len(sessions')
  /\ settled' = FALSE /\ calls' = Unsure(Callers, calls)
  /\ UNCHANGED <<tokens, accessToken, user>>

\* The page is reloaded: what the tab kept in memory is gone.
Reload == Surprise /\ \E c \in Callers :
  /\ accessToken' = 0 /\ user' = Nobody
  /\ calls' = [d \in Callers |-> IF d # c THEN Idle
                 ELSE Request("mount", Nobody, FALSE, Live(cookie), TRUE)]
  /\ settled' = TRUE
  /\ UNCHANGED <<sessions, tokens, cookie>>

\* A request or its answer is lost.  fetch() rejects: a refresh counts as
\* failed, a logout and the mount effect clear what is shown.
Lose(c) == Surprise /\ c \in Busy
  /\ calls[c].stage # "refused"
  /\ LET clears == calls[c].kind \in {"logout", "mount"}
         during == calls[c].stage \in {"refreshing", "refreshed"}
         cs     == [calls EXCEPT ![c] = Idle]
     IN /\ accessToken' = IF clears \/ during THEN 0 ELSE accessToken
        /\ user' = IF clears THEN Nobody ELSE user
        /\ IF clears THEN Leaves(c, cs) ELSE calls' = cs /\ UNCHANGED settled
  /\ UNCHANGED <<sessions, tokens, cookie>>

CallerStep(c) ==
  \/ StartCall(c) \/ StartLogin(c) \/ StartLogout(c)
  \/ Refuse(c) \/ Answer(c) \/ Grants(c) \/ login(c) \/ mount(c) \/ logout(c)
  \/ GiveUp(c) \/ tryRefresh(c) \/ refresh(c) \/ Refreshed(c)
  \/ RefreshRefused(c) \/ Lose(c)

SessionNext ==
  \/ \E c \in Callers : CallerStep(c)
  \/ ExpireToken \/ EndSession \/ OtherTab \/ Reload

-----------------------------------------------------------------------------
\* A page's call is refused for want of a session only if there was none: the
\* session ended, its cookie was cleared, the refresh got lost, or the token
\* of the retry expired as well.  An access token that has expired, or that
\* another call has cleared, costs nobody an answer.
RefusedOnlyWithoutSession ==
  \A c \in Callers :
    calls[c].stage = "ended" /\ calls[c].refused => ~calls[c].calm

\* What a page is answered is what the user it shows may see, unless another
\* tab changed the cookie, or the call was under way across a login or logout
\* (nothing ties a refresh to the login that the tab shows).
AnswersAreForShownUser ==
  \A c \in Callers :
    calls[c].stage = "ended" /\ calls[c].by # Nobody
      => calls[c].by = calls[c].as \/ ~calls[c].sure
=============================================================================
