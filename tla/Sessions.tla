------------------------------ MODULE Sessions ------------------------------
(***************************************************************************)
(* One session and the phone that holds it: the rotation of the refresh    *)
(* token (auth/sessions.service.ts, auth/auth.service.ts) and the client   *)
(* that renews it (mobile services/api/client.ts, stores/authStore.ts).    *)
(*                                                                         *)
(* The network loses requests and answers.  The phone has one renewal in   *)
(* flight and stops waiting for it after thirty seconds; the server knows  *)
(* nothing of that and goes on.  Token names no longer held by anybody are *)
(* used again, which makes the state space finite without any bound.       *)
(***************************************************************************)
EXTENDS Naturals, FiniteSets

CONSTANTS
    Tokens,    \* names of refresh tokens
    Requests,  \* calls of POST /auth/refresh that can be under way at once
    None,      \* no token, no request
    Login      \* the token handed out when the session was opened

ASSUME SessionsAssumption ==
    /\ None \notin Tokens \cup Requests
    /\ Login \in Tokens

VARIABLES
    session,    \* the row of the session; a hash is named by its token
    suspended,  \* the account is suspended or inactive
    phone,      \* the refresh token in the phone's storage
    waiting,    \* refreshPromise: the renewal the phone is waiting for
    request,    \* where each call of /auth/refresh stands
    why         \* history: what may end a session, or cost the phone its token

vars == <<session, suspended, phone, waiting, request, why>>

-----------------------------------------------------------------------------
Session == [hash : Tokens, previous : Tokens \cup {None}, grace : BOOLEAN,
            revoked : BOOLEAN, expired : BOOLEAN]
Request == [at : {"idle", "sent", "reuse", "user", "rotate", "answered", "refused"},
            token : Tokens \cup {None}, new : Tokens \cup {None}]
Idle == [at |-> "idle", token |-> None, new |-> None]

Init ==
    /\ session = [hash |-> Login, previous |-> None, grace |-> FALSE,
                  revoked |-> FALSE, expired |-> FALSE]
    /\ suspended = FALSE
    /\ phone = Login
    /\ waiting = None
    /\ request = [r \in Requests |-> Idle]
    /\ why = {}

At(r, where) == request[r].at = where
Goes(r, where) == request' = [request EXCEPT ![r].at = where]

\* signTokenPairRaw: a token nobody holds (jwtid).
Unused == Tokens \ ({session.hash, session.previous, phone}
                    \cup {request[r].token : r \in Requests} \cup {request[r].new : r \in Requests})

Fresh == CHOOSE t \in Tokens : t \in Unused

\* isWithinGrace
WithinGrace(t) == t = session.previous /\ session.grace

-----------------------------------------------------------------------------
(* The phone.                                                               *)

\* refreshAccessToken: an access token was refused; one renewal at a time.
Refresh(r) ==
    /\ waiting = None /\ phone # None /\ At(r, "idle")
    /\ waiting' = r
    /\ request' = [request EXCEPT ![r] = [Idle EXCEPT !.at = "sent", !.token = phone]]
    /\ UNCHANGED <<session, suspended, phone, why>>

\* No network, thirty seconds without an answer, 5xx, 429, or the application is closed.
GiveUp ==
    /\ waiting # None
    /\ waiting' = None
    /\ UNCHANGED <<session, suspended, phone, request, why>>

Deliver(r) ==
    /\ waiting = r /\ At(r, "answered")
    /\ phone' = request[r].new
    /\ waiting' = None
    /\ request' = [request EXCEPT ![r] = Idle]
    /\ UNCHANGED <<session, suspended, why>>

\* 400, 401, 403: the only answers after which the tokens are cleared.
Refused(r) ==
    /\ waiting = r /\ At(r, "refused")
    /\ phone' = None
    /\ waiting' = None
    /\ request' = [request EXCEPT ![r] = Idle]
    /\ UNCHANGED <<session, suspended, why>>

\* hydrate: at launch every error but a network error clears the tokens, a 503 too.
LaunchFails ==
    /\ phone # None
    /\ phone' = None
    /\ waiting' = None
    /\ why' = why \cup {"launch"}
    /\ UNCHANGED <<session, suspended, request>>

\* The tokens are cleared whether or not the server was told.
Logout ==
    /\ phone # None
    /\ \E told \in BOOLEAN : session' = [session EXCEPT !.revoked = @ \/ told]
    /\ phone' = None
    /\ why' = why \cup {"ended"}
    /\ UNCHANGED <<suspended, waiting, request>>

-----------------------------------------------------------------------------
(* The server: refreshTokens, one statement at a time.                      *)

\* validateRefreshToken
Validate(r) ==
    /\ At(r, "sent")
    /\ Goes(r, IF session.revoked \/ session.expired THEN "refused"
               ELSE IF request[r].token = session.hash \/ WithinGrace(request[r].token) THEN "user"
               ELSE "reuse")
    /\ UNCHANGED <<session, suspended, phone, waiting, why>>

Stray(r) == IF waiting = r THEN {} ELSE {"stray"}

\* An old token outside the grace period: the session is closed as a precaution.
RevokeReused(r) ==
    /\ At(r, "reuse")
    /\ session' = [session EXCEPT !.revoked = TRUE]
    /\ Goes(r, "refused")
    /\ why' = why \cup Stray(r)
    /\ UNCHANGED <<suspended, phone, waiting>>

CheckUser(r) ==
    /\ At(r, "user")
    /\ Goes(r, IF suspended THEN "refused" ELSE "rotate")
    /\ UNCHANGED <<session, suspended, phone, waiting, why>>

Answer(r) ==
    /\ Unused # {}
    /\ request' = [request EXCEPT ![r].at = "answered", ![r].new = Fresh]

\* The first updateMany of rotateRefreshToken.
RotateNormal(r) ==
    /\ At(r, "rotate") /\ ~session.revoked /\ request[r].token = session.hash
    /\ session' = [hash |-> Fresh, previous |-> session.hash, grace |-> TRUE,
                   revoked |-> FALSE, expired |-> FALSE]
    /\ Answer(r)
    /\ UNCHANGED <<suspended, phone, waiting, why>>

\* Mutant: whoever rotates, what was current becomes the previous token.
GraceMovesOn(r) ==
    /\ At(r, "rotate") /\ ~session.revoked
    /\ request[r].token # session.hash /\ WithinGrace(request[r].token)
    /\ session' = [session EXCEPT !.hash = Fresh, !.previous = session.hash, !.expired = FALSE]
    /\ Answer(r)
    /\ why' = why \cup Stray(r)
    /\ UNCHANGED <<suspended, phone, waiting>>

\* Mutant: the session was valid when it was read, that is enough.
GraceUnclaimed(r) ==
    /\ At(r, "rotate")
    /\ request[r].token # session.hash /\ WithinGrace(request[r].token)
    /\ session' = [session EXCEPT !.hash = Fresh, !.expired = FALSE]
    /\ Answer(r)
    /\ why' = why \cup Stray(r)
    /\ UNCHANGED <<suspended, phone, waiting>>

\* The second one, when the first matched nothing: the previous token stays the previous one.
RotateGrace(r) ==
    /\ At(r, "rotate") /\ ~session.revoked
    /\ request[r].token # session.hash /\ WithinGrace(request[r].token)
    /\ session' = [session EXCEPT !.hash = Fresh, !.expired = FALSE]
    /\ Answer(r)
    /\ why' = why \cup Stray(r)
    /\ UNCHANGED <<suspended, phone, waiting>>

RotateNothing(r) ==
    /\ At(r, "rotate")
    /\ session.revoked \/ (request[r].token # session.hash /\ ~WithinGrace(request[r].token))
    /\ Goes(r, "refused")
    /\ UNCHANGED <<session, suspended, phone, waiting, why>>

-----------------------------------------------------------------------------
(* Everything else that happens to the session.                             *)

\* A request or an answer is lost on the way, or the server stops: nobody is waiting any more.
Vanish(r) ==
    /\ waiting # r /\ ~At(r, "idle")
    /\ request' = [request EXCEPT ![r] = Idle]
    /\ UNCHANGED <<session, suspended, phone, waiting, why>>

\* Sixty seconds after the last normal rotation; too late if the phone still has the former token.
GraceEnds ==
    /\ session.grace
    /\ session' = [session EXCEPT !.grace = FALSE]
    /\ why' = why \cup (IF phone = session.previous THEN {"late"} ELSE {})
    /\ UNCHANGED <<suspended, phone, waiting, request>>

Expire ==
    /\ ~session.expired
    /\ session' = [session EXCEPT !.expired = TRUE]
    /\ why' = why \cup {"ended"}
    /\ UNCHANGED <<suspended, phone, waiting, request>>

\* revokeAllForUser, from another device: password changed, logout everywhere.
RevokeAll ==
    /\ ~session.revoked
    /\ session' = [session EXCEPT !.revoked = TRUE]
    /\ why' = why \cup {"ended"}
    /\ UNCHANGED <<suspended, phone, waiting, request>>

Suspend ==
    /\ suspended' = ~suspended
    /\ why' = why \cup {"ended"}
    /\ UNCHANGED <<session, phone, waiting, request>>

Serve(r) ==
    \/ Validate(r) \/ RevokeReused(r) \/ CheckUser(r)
    \/ RotateNormal(r) \/ RotateGrace(r) \/ RotateNothing(r)

Next ==
    \/ \E r \in Requests : Refresh(r) \/ Deliver(r) \/ Refused(r) \/ Serve(r) \/ Vanish(r)
    \/ GiveUp \/ LaunchFails \/ Logout
    \/ GraceEnds \/ Expire \/ RevokeAll \/ Suspend

Spec == Init /\ [][Next]_vars

-----------------------------------------------------------------------------
(* Properties.                                                              *)

\* Every variable keeps its type; an answer carries a token and is an answer to one.
TypeOK ==
    /\ session \in Session
    /\ suspended \in BOOLEAN
    /\ phone \in Tokens \cup {None}
    /\ waiting \in Requests \cup {None}
    /\ request \in [Requests -> Request]
    /\ why \in SUBSET {"ended", "launch", "late", "stray"}
    /\ \A r \in Requests : /\ ~At(r, "idle") => request[r].token # None
                           /\ At(r, "answered") => request[r].new # None

\* Lost answers, retries and requests that finish after their retry do not cost a phone its
\* session: that takes the end of the session, a retry that comes after the grace period, an
\* error at launch, or a renewal nobody waits for any more that still overwrites or revokes.
NotCutForNothing == phone = None \/ session.revoked => why # {}

\* A session that is revoked stays so and hands out no token, not even to a renewal that
\* had been validated, within its grace period, before the revocation.
RevokedIsOver == [][session.revoked => session'.revoked /\ session'.hash = session.hash]_vars
=============================================================================
