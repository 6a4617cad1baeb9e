------------------------------ MODULE RefreshTokens ------------------------------
(***************************************************************************)
(* Refresh tokens: issued at login, rotated, revoked one by one or all     *)
(* together (RefreshTokenService and what AuthService does with it).       *)
(*                                                                         *)
(* A token is the id of its row: the raw value and its hash stand for each *)
(* other, and only who was answered with the raw value can present it.     *)
(* Every statement is atomic.  The INSERT and the UPDATE of a rotation are *)
(* one step with their COMMIT: nobody sees the new row before, and no      *)
(* other statement keeps a lock for the UPDATE to wait for.  The reads     *)
(* before them are steps of their own.                                     *)
(***************************************************************************)
EXTENDS Integers, FiniteSets

CONSTANTS
    Sessions,      \* handlers that can be in progress at a time
    Users,
    Lifetime,      \* REFRESH_TOKEN_EXPIRES_IN_DAYS
    None,
    \* Bounds of the model
    MaxTime, MaxTokens, MaxInFlight

Tokens == 1..MaxTokens
Times  == 0..(MaxTime + Lifetime)
Reasons == {"logout", "rotate", "logout_all", "suspected_reuse"}

ASSUME BoundsAssumption == Lifetime \in Nat /\ MaxTime \in Nat /\ MaxTokens \in Nat /\ None \notin Users

VARIABLES
    now,
    token,     \* refresh_tokens
    held,      \* the tokens whose raw value a client was answered with
    ended,     \* history: the logins that were ended, with the reason
    proc       \* the local state of each handler

vars == <<now, token, held, ended, proc>>

\* revoked is revoked_reason, "no" for is_revoked = false.  Two fields are history: the token
\* this one was issued for in a rotation (0 at login), and the first token of the login it belongs to.
TokenRows == [user : Users, expires : Times, revoked : Reasons \cup {"no"}, replacedBy : Tokens \cup {0},
              rotations : Nat, from : Tokens \cup {0}, login : Tokens]
NoToken == [user |-> None]

\* wasLive is history: whether the token was not revoked when the handler read it.
Locals == [op : {"idle", "login", "refresh"}, at : {"idle", "reuse", "rotate", "answer"},
           token : Tokens \cup {0}, wasLive : BOOLEAN]
Idle == [op |-> "idle", at |-> "idle", token |-> 0, wasLive |-> FALSE]

Init ==
    /\ now = 0
    /\ token = [t \in Tokens |-> NoToken]
    /\ held = {}
    /\ ended = {}
    /\ proc = [s \in Sessions |-> Idle]

-----------------------------------------------------------------------------
(* Rows *)

Issued == {t \in Tokens : token[t] # NoToken}
Live(t) == t \in Issued /\ token[t].revoked = "no"
NextId(t) == t \in Tokens \ Issued /\ \A o \in Tokens \ Issued : t <= o

NewToken(u, t) == [user |-> u, expires |-> now + Lifetime, revoked |-> "no", replacedBy |-> 0,
                   rotations |-> 0, from |-> 0, login |-> t]
\* A rotation whose token was revoked between its read and its write begins another login.
NewRotation(old, t, wasLive, expires) ==
    [user |-> token[old].user, expires |-> expires, revoked |-> "no", replacedBy |-> 0,
     rotations |-> token[old].rotations + 1, from |-> old,
     login |-> IF wasLive /\ ~Live(old) THEN t ELSE token[old].login]
Prolonged(old, t, wasLive) ==                              \* mutant: adds to the old expiry
    NewRotation(old, t, wasLive, token[old].expires + Lifetime)
Successor(old, t, wasLive) == NewRotation(old, t, wasLive, now + Lifetime)

LinkedForRotation(row, new) == [row EXCEPT !.replacedBy = new]     \* mutant: links, and does not revoke
RevokedForRotation(row, new) == [row EXCEPT !.revoked = "rotate", !.replacedBy = new]

\* The UPDATE of revokeByHash and revokeAllForUser, on the rows T.
RevokeAnyway(T, reason) ==                                 \* mutant: also what is revoked already
    token' = [t \in Tokens |-> IF t \in T \cap Issued THEN [token[t] EXCEPT !.revoked = reason] ELSE token[t]]
Revoke(T, reason) ==
    token' = [t \in Tokens |-> IF t \in T /\ Live(t) THEN [token[t] EXCEPT !.revoked = reason] ELSE token[t]]

OfUser(u) == {t \in Issued : token[t].user = u}
EndLogins(T, reason) == ended' = ended \cup {<<token[t].login, reason>> : t \in T}

-----------------------------------------------------------------------------
(* Handlers *)

Become(s, l) == proc' = [proc EXCEPT ![s] = l]
MayStart == Cardinality({s \in Sessions : proc[s] # Idle}) < MaxInFlight   \* the bound of the model
Start(s, l) == MayStart /\ proc[s] = Idle /\ Become(s, l)

\* RefreshTokenService.create, at the end of a login.
Create(s, u) == \E t \in Tokens :
    /\ NextId(t)
    /\ Start(s, [op |-> "login", at |-> "answer", token |-> t, wasLive |-> FALSE])
    /\ token' = [token EXCEPT ![t] = NewToken(u, t)]
    /\ UNCHANGED <<now, held, ended>>

WasReplaced(t) == token[t].replacedBy # 0                  \* mutant: takes only rotation for a revocation
IsRevoked(t) == token[t].revoked # "no"

\* rotate, up to the transaction; an expired token ends it.
FindByTokenHash(s, t) ==
    /\ t \in held
    /\ IsRevoked(t) \/ token[t].expires >= now
    /\ Start(s, [op |-> "refresh", at |-> IF IsRevoked(t) THEN "reuse" ELSE "rotate", token |-> t, wasLive |-> Live(t)])
    /\ UNCHANGED <<now, token, held, ended>>

\* A revoked token is presented again: revokeAllForUser, and the handler throws.
RevokeAfterReuse(s) ==
    LET u == token[proc[s].token].user IN
    /\ proc[s].at = "reuse"
    /\ Revoke(OfUser(u), "suspected_reuse")
    /\ EndLogins(OfUser(u), "suspected_reuse")
    /\ Become(s, Idle)
    /\ UNCHANGED <<now, held>>

\* The UPDATE of markRevokedForRotation goes by id alone.
Rotate(s) ==
    LET old == proc[s].token IN
    /\ proc[s].at = "rotate"
    /\ \E t \in Tokens :
          /\ NextId(t)
          /\ token' = [token EXCEPT ![t] = Successor(old, t, proc[s].wasLive), ![old] = RevokedForRotation(@, t)]
          /\ Become(s, [proc[s] EXCEPT !.at = "answer", !.token = t])
    /\ UNCHANGED <<now, held, ended>>

\* The response arrives, after the user was looked up.
Answer(s) ==
    /\ proc[s].at = "answer"
    /\ held' = held \cup {proc[s].token}
    /\ Become(s, Idle)
    /\ UNCHANGED <<now, token, ended>>

\* Any statement can throw, the process can die, and a response can be lost.
Fail(s) == proc[s] # Idle /\ Become(s, Idle) /\ UNCHANGED <<now, token, held, ended>>

\* logout: one statement.
RevokeByHash(t) ==
    /\ MayStart
    /\ t \in held
    /\ Revoke({t}, "logout")
    /\ EndLogins({o \in {t} : Live(o)}, "logout")
    /\ UNCHANGED <<now, held, proc>>

\* logout-all: one statement.
RevokeAllForUser(u) ==
    /\ MayStart
    /\ Revoke(OfUser(u), "logout_all")
    /\ EndLogins(OfUser(u), "logout_all")
    /\ UNCHANGED <<now, held, proc>>

Tick == now < MaxTime /\ now' = now + 1 /\ UNCHANGED <<token, held, ended, proc>>

Next ==
    \/ \E s \in Sessions :
          \/ \E u \in Users : Create(s, u)
          \/ \E t \in Tokens : FindByTokenHash(s, t)
          \/ RevokeAfterReuse(s) \/ Rotate(s) \/ Answer(s) \/ Fail(s)
    \/ \E t \in Tokens : RevokeByHash(t)
    \/ \E u \in Users : RevokeAllForUser(u)
    \/ Tick

Spec == Init /\ [][Next]_vars

-----------------------------------------------------------------------------
(* Properties that hold under every interleaving *)

\* Rows, histories and handlers keep their types, and clients hold what was issued.
TypeOK ==
    /\ now \in 0..MaxTime
    /\ token \in [Tokens -> TokenRows \cup {NoToken}]
    /\ held \subseteq Issued /\ ended \subseteq Tokens \X Reasons
    /\ proc \in [Sessions -> Locals]
    /\ \A s \in Sessions : proc[s] # Idle => proc[s].token \in Issued

\* However rotations, logouts and failures interleave, a token that was rotated is revoked for
\* that reason, and linked to a token that was issued for it, of the same user and with one more
\* rotation: the old token is never left alive beside the new one, and what revokes many tokens
\* at once does not rewrite the history of those that were revoked before.
RotationLinks == \A t \in Issued : token[t].from # 0 =>
    LET old == token[token[t].from] IN
    /\ old.revoked = "rotate"
    /\ old.user = token[t].user /\ token[t].rotations = old.rotations + 1
    /\ old.replacedBy \in Issued /\ token[old.replacedBy].from = token[t].from

\* A login has one live token at a time, whatever was rotated, replayed, lost or revoked on the
\* way: a second live token comes from a rotation only whose token was revoked between its read
\* and its write, which begins another login.
OneLivePerLogin == \A t1, t2 \in Issued : Live(t1) /\ Live(t2) /\ token[t1].login = token[t2].login => t1 = t2

\* A login that its user ended, or that the detection of reuse ended, has no live token left
\* and never gets one again.
EndedLoginsAreDead == \A t \in Issued, reason \in Reasons : <<token[t].login, reason>> \in ended => ~Live(t)

\* What is left of the races: once a token was rotated, or its login was ended, no other refresh
\* passes the check of it.  Only those that had read it before can still issue a successor, whatever
\* is replayed, answered late or retried.
Rotators(t) == {s \in Sessions : proc[s].at = "rotate" /\ proc[s].token = t}
Spent(t) == \/ \E n \in Issued : token[n].from = t
            \/ \E reason \in Reasons : <<token[t].login, reason>> \in ended
NoLateRefresh == [][\A t \in Issued : Spent(t) => Rotators(t)' \subseteq Rotators(t)]_vars

-----------------------------------------------------------------------------
(* Properties that interleavings break *)

\* rotate is to "validate and consume" a token: one token buys one successor, also when the
\* response was lost and the client tries again.
OneSuccessor == \A t1, t2 \in Issued :
    token[t1].from # 0 /\ token[t1].from = token[t2].from => t1 = t2

\* After "logout from all devices" no device of the user has a live token that goes back to a
\* token of before.
LoggedOutEverywhere == \A t \in Issued :
    token[t].from # 0 /\ <<token[token[t].from].login, "logout_all">> \in ended => ~Live(t)
=============================================================================
