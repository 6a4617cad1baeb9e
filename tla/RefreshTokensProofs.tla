--------------------------- MODULE RefreshTokensProofs ---------------------------
(***************************************************************************)
(* Proofs about RefreshTokens, for any number of handlers, users and       *)
(* tokens.  RotationLinks is inductive together with the types; what logins *)
(* keep takes some more knowledge of logins.                               *)
(***************************************************************************)
EXTENDS RefreshTokens, TLAPS

\* A handler rotates only what was live when it read it.
ReadLive == \A s \in Sessions : proc[s].at = "rotate" => proc[s].wasLive

Inv == TypeOK /\ RotationLinks /\ ReadLive

\* A row of the table is not the absence of one.
LEMMA RowsAreIssued ==
  ASSUME TypeOK, NEW t \in Tokens
  PROVE  t \in Issued <=> token[t] \in TokenRows
  BY BoundsAssumption DEF TypeOK, Issued, NoToken, TokenRows

\* The rows that rotate, login and the revocations write are rows.
LEMMA NewRowTypes ==
  ASSUME TypeOK
  PROVE  /\ \A u \in Users, t \in Tokens : NewToken(u, t) \in TokenRows
         /\ \A t \in Issued, n \in Tokens, b \in BOOLEAN : Successor(t, n, b) \in TokenRows
         /\ \A row \in TokenRows, t \in Tokens : RevokedForRotation(row, t) \in TokenRows
         /\ \A row \in TokenRows, reason \in Reasons : [row EXCEPT !.revoked = reason] \in TokenRows
<1>1. now + Lifetime \in Times
  BY BoundsAssumption DEF TypeOK, Times
<1>2. \A u \in Users, t \in Tokens : NewToken(u, t) \in TokenRows
  BY <1>1 DEF NewToken, TokenRows
<1>3. \A t \in Issued, n \in Tokens, b \in BOOLEAN : Successor(t, n, b) \in TokenRows
  <2>1. \A t \in Issued : t \in Tokens /\ token[t] \in TokenRows
    BY RowsAreIssued DEF Issued
  <2> QED
    BY <1>1, <2>1 DEF Successor, NewRotation, TokenRows
<1>4. \A row \in TokenRows, t \in Tokens : RevokedForRotation(row, t) \in TokenRows
  BY DEF RevokedForRotation, TokenRows, Reasons
<1>5. \A row \in TokenRows, reason \in Reasons : [row EXCEPT !.revoked = reason] \in TokenRows
  BY DEF TokenRows
<1> QED
  BY <1>2, <1>3, <1>4, <1>5

\* A handler that goes on with an issued token, or is idle again.
LEMMA HandlerSteps ==
  ASSUME TypeOK, NEW s \in Sessions, NEW l \in Locals, Become(s, l), Issued \subseteq Issued',
         l = Idle \/ l.token \in Issued', ReadLive, l.at = "rotate" => l.wasLive
  PROVE  /\ proc' \in [Sessions -> Locals]
         /\ \A p \in Sessions : proc'[p] # Idle => proc'[p].token \in Issued'
         /\ ReadLive'
  BY DEF TypeOK, Become, ReadLive

\* The initial state.
LEMMA InitInv == Init => Inv
  BY BoundsAssumption DEF Init, Inv, TypeOK, RotationLinks, ReadLive, Issued, NoToken, Idle, Locals, Tokens

\* A revocation changes the reason of live rows, and which tokens there are not at all.
LEMMA RevokeKeeps ==
  ASSUME Inv, NEW T, NEW reason \in Reasons, Revoke(T, reason)
  PROVE  /\ token' \in [Tokens -> TokenRows \cup {NoToken}]
         /\ Issued' = Issued
         /\ RotationLinks'
<1> USE DEF Inv
<1>1. \A t \in Tokens : \/ token'[t] = token[t]
                        \/ Live(t) /\ token'[t] = [token[t] EXCEPT !.revoked = reason]
  BY DEF Revoke
<1>2. token' \in [Tokens -> TokenRows \cup {NoToken}]
  <2>1. \A t \in Tokens : token'[t] \in TokenRows \cup {NoToken}
    <3> SUFFICES ASSUME NEW t \in Tokens PROVE token'[t] \in TokenRows \cup {NoToken}
      OBVIOUS
    <3>1. CASE token'[t] = token[t]
      BY <3>1 DEF TypeOK
    <3>2. CASE Live(t) /\ token'[t] = [token[t] EXCEPT !.revoked = reason]
      <4>1. token[t] \in TokenRows
        BY <3>2, RowsAreIssued DEF Live
      <4> QED
        BY <3>2, <4>1, NewRowTypes
    <3> QED
      BY <1>1, <3>1, <3>2
  <2> QED
    BY <2>1 DEF Revoke
<1>3. Issued' = Issued
  <2>1. \A t \in Tokens : t \in Issued => token'[t].user \in Users
    BY <1>1, RowsAreIssued DEF TokenRows
  <2>2. \A t \in Tokens : t \notin Issued => token'[t] = NoToken
    BY <1>1 DEF Issued, Live
  <2> QED
    BY <2>1, <2>2, BoundsAssumption DEF Issued, NoToken
<1>4. \A t \in Issued : /\ token'[t].from = token[t].from /\ token'[t].user = token[t].user
                        /\ token'[t].login = token[t].login /\ token'[t].rotations = token[t].rotations
                        /\ token'[t].replacedBy = token[t].replacedBy
                        /\ token[t].revoked = "rotate" => token'[t].revoked = "rotate"
  BY <1>1, RowsAreIssued DEF Issued, Live, TokenRows
<1>5. \A t \in Issued : token[t].from # 0 => token[t].from \in Issued
  <2> SUFFICES ASSUME NEW t \in Issued, token[t].from # 0, token[t].from \notin Issued PROVE FALSE
    OBVIOUS
  <2>1. token[t].from \in Tokens
    BY RowsAreIssued DEF Issued, TokenRows
  <2>2. token[token[t].from] = NoToken
    BY <2>1 DEF Issued
  <2>3. token[token[t].from].user = None /\ token[t].user \in Users
    BY <2>2, RowsAreIssued DEF NoToken, Issued, TokenRows
  <2> QED
    BY <2>3, BoundsAssumption DEF RotationLinks
<1>6. RotationLinks'
  BY <1>3, <1>4, <1>5 DEF RotationLinks
<1> QED
  BY <1>2, <1>3, <1>6

\* Login adds a token that nothing is linked to.
LEMMA CreateKeeps ==
  ASSUME Inv, NEW s \in Sessions, NEW u \in Users, Create(s, u)
  PROVE  Inv'
<1> USE DEF Inv
<1>1. PICK t \in Tokens : /\ NextId(t)
                          /\ Become(s, [op |-> "login", at |-> "answer", token |-> t, wasLive |-> FALSE])
                          /\ token' = [token EXCEPT ![t] = NewToken(u, t)]
  BY DEF Create, Start
<1>2. t \notin Issued /\ token' \in [Tokens -> TokenRows \cup {NoToken}] /\ token'[t] = NewToken(u, t)
  BY <1>1, NewRowTypes DEF TypeOK, NextId
<1>3. Issued' = Issued \cup {t}
  <2>1. NewToken(u, t) # NoToken
    BY BoundsAssumption DEF NewToken, NoToken
  <2> QED
    BY <1>1, <1>2, <2>1 DEF Issued, TypeOK
<1>4. \A o \in Issued : token'[o] = token[o]
  BY <1>1, <1>2 DEF TypeOK, Issued
<1>5. TypeOK' /\ ReadLive'
  <2> DEFINE l == [op |-> "login", at |-> "answer", token |-> t, wasLive |-> FALSE]
  <2>1. l \in Locals /\ l.token = t /\ l.at # "rotate"
    BY DEF Locals
  <2>2. Become(s, l)
    BY <1>1
  <2> HIDE DEF l
  <2>3. /\ proc' \in [Sessions -> Locals] /\ ReadLive'
        /\ \A p \in Sessions : proc'[p] # Idle => proc'[p].token \in Issued'
    BY <1>3, <2>1, <2>2, HandlerSteps
  <2> QED
    BY <1>2, <1>3, <2>3 DEF Create, TypeOK
<1>6. RotationLinks'
  <2> SUFFICES ASSUME NEW o \in Issued', token'[o].from # 0
               PROVE  LET old == token'[token'[o].from] IN
                      /\ old.revoked = "rotate"
                      /\ old.user = token'[o].user
                      /\ token'[o].rotations = old.rotations + 1
                      /\ old.replacedBy \in Issued' /\ token'[old.replacedBy].from = token'[o].from
    BY DEF RotationLinks
  <2>1. o \in Issued /\ token'[o] = token[o]
    BY <1>2, <1>3, <1>4 DEF NewToken
  <2>2. token[o].from \in Issued
    <3>1. token[o].from \in Tokens /\ token[o].user \in Users
      BY <2>1, RowsAreIssued DEF Issued, TokenRows
    <3> QED
      BY <2>1, <3>1, BoundsAssumption DEF RotationLinks, Issued, NoToken
  <2> QED
    BY <1>3, <1>4, <2>1, <2>2 DEF RotationLinks
<1> QED
  BY <1>5, <1>6

\* A rotation adds a token that the old one, revoked for it, is linked to; what other tokens
\* are linked to stays as it was.
LEMMA RotateKeeps ==
  ASSUME Inv, NEW s \in Sessions, Rotate(s)
  PROVE  Inv'
<1> USE DEF Inv
<1> DEFINE old == proc[s].token
<1>1. PICK t \in Tokens : /\ NextId(t)
                          /\ token' = [token EXCEPT ![t] = Successor(old, t, proc[s].wasLive), ![old] = RevokedForRotation(@, t)]
                          /\ Become(s, [proc[s] EXCEPT !.at = "answer", !.token = t])
  BY DEF Rotate
<1>2. old \in Issued /\ old \in Tokens /\ t \notin Issued /\ t # old /\ token[old] \in TokenRows
  <2>1. proc[s] # Idle
    BY DEF Rotate, Idle
  <2> QED
    BY <1>1, <2>1, RowsAreIssued DEF TypeOK, NextId, Issued
<1>3. /\ token' \in [Tokens -> TokenRows \cup {NoToken}] /\ proc[s].wasLive \in BOOLEAN
      /\ token'[t] = Successor(old, t, proc[s].wasLive) /\ token'[old] = RevokedForRotation(token[old], t)
      /\ \A o \in Tokens \ {t, old} : token'[o] = token[o]
  BY <1>1, <1>2, NewRowTypes DEF TypeOK, Locals
<1>4. /\ token'[t].from = old /\ token'[t].user = token[old].user
      /\ token'[t].rotations = token[old].rotations + 1
      /\ token'[old].revoked = "rotate" /\ token'[old].replacedBy = t
      /\ token'[old].user = token[old].user /\ token'[old].login = token[old].login
      /\ token'[old].rotations = token[old].rotations /\ token'[old].from = token[old].from
  BY <1>2, <1>3 DEF Successor, NewRotation, RevokedForRotation, TokenRows
<1>5. Issued' = Issued \cup {t}
  <2>1. token'[t] # NoToken /\ token'[old] # NoToken
    BY <1>2, <1>4, BoundsAssumption DEF NoToken, TokenRows
  <2> QED
    BY <1>2, <1>3, <2>1 DEF Issued
<1>6. TypeOK' /\ ReadLive'
  <2> DEFINE l == [proc[s] EXCEPT !.at = "answer", !.token = t]
  <2>1. l \in Locals /\ l.token = t /\ l.at # "rotate"
    BY DEF TypeOK, Locals
  <2>2. Become(s, l)
    BY <1>1
  <2> HIDE DEF l
  <2>3. /\ proc' \in [Sessions -> Locals] /\ ReadLive'
        /\ \A p \in Sessions : proc'[p] # Idle => proc'[p].token \in Issued'
    BY <1>5, <2>1, <2>2, HandlerSteps
  <2> QED
    BY <1>3, <1>5, <2>3 DEF Rotate, TypeOK
<1>7. RotationLinks'
  <2> SUFFICES ASSUME NEW o \in Issued', token'[o].from # 0
               PROVE  LET before == token'[token'[o].from] IN
                      /\ before.revoked = "rotate"
                      /\ before.user = token'[o].user
                      /\ token'[o].rotations = before.rotations + 1
                      /\ before.replacedBy \in Issued' /\ token'[before.replacedBy].from = token'[o].from
    BY DEF RotationLinks
  <2>1. CASE o = t
    BY <1>4, <1>5, <2>1
  <2>2. CASE o \in Issued
    <3>1. /\ token'[o].from = token[o].from /\ token'[o].user = token[o].user
          /\ token'[o].login = token[o].login /\ token'[o].rotations = token[o].rotations
      BY <1>2, <1>3, <1>4, <2>2 DEF Issued
    <3>2. token[o].from \in Issued
      <4>1. token[o].from \in Tokens /\ token[o].user \in Users
        BY <2>2, <3>1, RowsAreIssued DEF Issued, TokenRows
      <4> QED
        BY <2>2, <3>1, <4>1, BoundsAssumption DEF RotationLinks, Issued, NoToken
    <3>3. CASE token[o].from = old
      BY <1>4, <1>5, <2>2, <3>1, <3>3 DEF RotationLinks
    <3>4. CASE token[o].from # old
      <4>1. token'[token[o].from] = token[token[o].from]
        BY <1>2, <1>3, <3>2, <3>4 DEF Issued
      <4>2. \A x \in Issued : token'[x].from = token[x].from
        BY <1>2, <1>3, <1>4 DEF Issued
      <4> QED
        BY <1>5, <2>2, <3>1, <4>1, <4>2 DEF RotationLinks
    <3> QED
      BY <3>3, <3>4
  <2> QED
    BY <1>5, <2>1, <2>2
<1> QED
  BY <1>6, <1>7

\* Every step keeps the types and the links.
LEMMA NextInv == Inv /\ [Next]_vars => Inv'
<1> SUFFICES ASSUME Inv, [Next]_vars PROVE Inv'
  OBVIOUS
<1>1. CASE UNCHANGED vars
  BY <1>1 DEF Inv, TypeOK, RotationLinks, ReadLive, Issued, vars
<1>2. ASSUME NEW s \in Sessions, NEW u \in Users, Create(s, u) PROVE Inv'
  BY <1>2, CreateKeeps
<1>3. ASSUME NEW s \in Sessions, NEW t \in Tokens, FindByTokenHash(s, t) PROVE Inv'
  <2> DEFINE l == [op |-> "refresh", at |-> IF IsRevoked(t) THEN "reuse" ELSE "rotate", token |-> t, wasLive |-> Live(t)]
  <2>1. t \in Issued /\ Issued' = Issued /\ RotationLinks'
    BY <1>3 DEF FindByTokenHash, Inv, TypeOK, RotationLinks, Issued
  <2>2. l \in Locals /\ l.token = t /\ (l.at = "rotate" => l.wasLive)
    BY <1>3, <2>1 DEF Locals, IsRevoked, Live
  <2>3. Become(s, l)
    BY <1>3 DEF FindByTokenHash, Start
  <2> HIDE DEF l
  <2>4. /\ proc' \in [Sessions -> Locals] /\ ReadLive'
        /\ \A p \in Sessions : proc'[p] # Idle => proc'[p].token \in Issued'
    BY <2>1, <2>2, <2>3, HandlerSteps DEF Inv
  <2> QED
    BY <1>3, <2>1, <2>4 DEF FindByTokenHash, Inv, TypeOK
<1>4. ASSUME NEW s \in Sessions, RevokeAfterReuse(s) PROVE Inv'
  <2>1. Revoke(OfUser(token[proc[s].token].user), "suspected_reuse") /\ "suspected_reuse" \in Reasons
    BY <1>4 DEF RevokeAfterReuse, Reasons
  <2>2. Idle \in Locals /\ Idle.at # "rotate"
    BY DEF Idle, Locals
  <2>3. ended' \subseteq Tokens \X Reasons
    <3>1. \A o \in Issued : token[o].login \in Tokens
      BY RowsAreIssued DEF Inv, Issued, TokenRows
    <3> QED
      BY <1>4, <2>1, <3>1 DEF RevokeAfterReuse, EndLogins, OfUser, Inv, TypeOK
  <2> QED
    BY <1>4, <2>1, <2>2, <2>3, RevokeKeeps, HandlerSteps DEF RevokeAfterReuse, Inv, TypeOK
<1>5. ASSUME NEW s \in Sessions, Rotate(s) PROVE Inv'
  BY <1>5, RotateKeeps
<1>6. ASSUME NEW s \in Sessions, Answer(s) \/ Fail(s) PROVE Inv'
  <2>1. Idle \in Locals /\ Idle.at # "rotate"
    BY DEF Idle, Locals
  <2>2. Become(s, Idle) /\ UNCHANGED <<now, token, ended>> /\ Issued' = Issued /\ RotationLinks'
    BY <1>6 DEF Answer, Fail, Inv, RotationLinks, Issued
  <2>3. held' \subseteq Issued
    BY <1>6 DEF Answer, Fail, Inv, TypeOK, Idle
  <2> QED
    BY <2>1, <2>2, <2>3, HandlerSteps DEF Inv, TypeOK
<1>7. ASSUME NEW t \in Tokens, RevokeByHash(t) PROVE Inv'
  <2>1. Revoke({t}, "logout") /\ "logout" \in Reasons
    BY <1>7 DEF RevokeByHash, Reasons
  <2>2. ended' \subseteq Tokens \X Reasons
    <3>1. \A o \in Issued : token[o].login \in Tokens
      BY RowsAreIssued DEF Inv, Issued, TokenRows
    <3> QED
      BY <1>7, <2>1, <3>1 DEF RevokeByHash, EndLogins, Live, Inv, TypeOK
  <2> QED
    BY <1>7, <2>1, <2>2, RevokeKeeps DEF RevokeByHash, Inv, TypeOK, ReadLive
<1>8. ASSUME NEW u \in Users, RevokeAllForUser(u) PROVE Inv'
  <2>1. Revoke(OfUser(u), "logout_all") /\ "logout_all" \in Reasons
    BY <1>8 DEF RevokeAllForUser, Reasons
  <2>2. ended' \subseteq Tokens \X Reasons
    <3>1. \A o \in Issued : token[o].login \in Tokens
      BY RowsAreIssued DEF Inv, Issued, TokenRows
    <3> QED
      BY <1>8, <2>1, <3>1 DEF RevokeAllForUser, EndLogins, OfUser, Inv, TypeOK
  <2> QED
    BY <1>8, <2>1, <2>2, RevokeKeeps DEF RevokeAllForUser, Inv, TypeOK, ReadLive
<1>9. CASE Tick
  BY <1>9, BoundsAssumption DEF Tick, Inv, TypeOK, RotationLinks, ReadLive, Issued
<1> QED
  BY <1>1, <1>2, <1>3, <1>4, <1>5, <1>6, <1>7, <1>8, <1>9 DEF Next

\* Rows, histories and handlers keep their types, and clients hold issued tokens only.
THEOREM TypeCorrect == Spec => []TypeOK
<1>1. Inv => TypeOK
  BY DEF Inv
<1> QED
  BY InitInv, NextInv, <1>1, PTL DEF Spec

\* However rotate, revoke, revokeAllForUser and their failures interleave, a rotated token is
\* revoked for that reason, and linked with a token issued for it.
THEOREM LinksAreKept == Spec => []RotationLinks
<1>1. Inv => RotationLinks
  BY DEF Inv
<1> QED
  BY InitInv, NextInv, <1>1, PTL DEF Spec

-----------------------------------------------------------------------------
(* Logins *)

\* A login goes back to an issued token of the same user, and only such logins have ended.
LoginsKnown ==
    /\ \A t \in Issued : token[t].login \in Issued /\ token[token[t].login].user = token[t].user
    /\ \A l \in Tokens, reason \in Reasons : <<l, reason>> \in ended => l \in Issued

LoginInv == LoginsKnown /\ OneLivePerLogin /\ EndedLoginsAreDead

\* What ends the logins of some tokens, and revokes every live token of these logins, leaves
\* none of them alive.
LEMMA EndLoginsKeeps ==
  ASSUME Inv, LoginInv, NEW T, NEW E \in SUBSET Issued, NEW reason \in Reasons,
         Revoke(T, reason), EndLogins(E, reason),
         \A e \in E, t \in Issued : Live(t) /\ token[t].login = token[e].login => t \in T
  PROVE  LoginInv'
<1>1. Issued' = Issued
  BY RevokeKeeps
<1>2. \A t \in Issued : /\ token'[t].login = token[t].login /\ token'[t].user = token[t].user
                        /\ Live(t)' => Live(t) /\ t \notin T
  <2> SUFFICES ASSUME NEW t \in Issued
               PROVE  /\ token'[t].login = token[t].login /\ token'[t].user = token[t].user
                      /\ Live(t)' => Live(t) /\ t \notin T
    OBVIOUS
  <2>1. t \in Tokens /\ token[t] \in TokenRows /\ reason # "no"
    BY RowsAreIssued DEF Inv, Issued, Reasons
  <2>2. CASE t \in T /\ Live(t)
    <3>1. token'[t] = [token[t] EXCEPT !.revoked = reason]
      BY <2>1, <2>2 DEF Revoke
    <3> QED
      BY <2>1, <3>1 DEF Live, TokenRows
  <2>3. CASE ~(t \in T /\ Live(t))
    <3>1. token'[t] = token[t]
      BY <2>1, <2>3 DEF Revoke
    <3> QED
      BY <2>3, <3>1, <1>1 DEF Live
  <2> QED
    BY <2>2, <2>3
<1>3. \A l \in Tokens, r \in Reasons : <<l, r>> \in ended' =>
         <<l, r>> \in ended \/ \E e \in E : l = token[e].login
  BY DEF EndLogins
<1>4. LoginsKnown'
  BY <1>1, <1>2, <1>3 DEF LoginInv, LoginsKnown
<1>5. OneLivePerLogin'
  BY <1>1, <1>2 DEF LoginInv, OneLivePerLogin
<1>6. EndedLoginsAreDead'
  <2> SUFFICES ASSUME NEW t \in Issued, NEW r \in Reasons, <<token[t].login, r>> \in ended', Live(t)' PROVE FALSE
    BY <1>1, <1>2 DEF EndedLoginsAreDead
  <2>1. token[t].login \in Tokens
    BY DEF LoginInv, LoginsKnown, Issued
  <2>2. CASE <<token[t].login, r>> \in ended
    BY <1>2, <2>2 DEF LoginInv, EndedLoginsAreDead
  <2>3. CASE \E e \in E : token[t].login = token[e].login
    BY <1>2, <2>3
  <2> QED
    BY <1>3, <2>1, <2>2, <2>3
<1> QED
  BY <1>4, <1>5, <1>6 DEF LoginInv

\* A new token t continues the login of a token that dies, or begins one.
LEMMA NewTokenKeeps ==
  ASSUME LoginInv, NEW t \in Tokens, t \notin Issued, Issued' = Issued \cup {t}, ended' = ended,
         \A o \in Issued : /\ token'[o].login = token[o].login /\ token'[o].user = token[o].user
                           /\ Live(o)' => Live(o),
         \/ token'[t].login = t
         \/ \E o \in Issued : /\ Live(o) /\ ~Live(o)'
                              /\ token'[t].login = token[o].login /\ token'[t].user = token[o].user
  PROVE  LoginInv'
<1>1. LoginsKnown'
  BY DEF LoginInv, LoginsKnown
<1>2. CASE token'[t].login = t
  <2>1. \A o \in Issued : token'[o].login # t
    BY DEF LoginInv, LoginsKnown
  <2>2. OneLivePerLogin'
    BY <1>2, <2>1 DEF LoginInv, OneLivePerLogin
  <2>3. EndedLoginsAreDead'
    BY <1>2 DEF LoginInv, LoginsKnown, EndedLoginsAreDead
  <2> QED
    BY <1>1, <2>2, <2>3 DEF LoginInv
<1>3. ASSUME NEW o \in Issued, Live(o), ~Live(o)', token'[t].login = token[o].login
      PROVE  LoginInv'
  <2>1. OneLivePerLogin'
    BY <1>3 DEF LoginInv, OneLivePerLogin
  <2>2. EndedLoginsAreDead'
    BY <1>3 DEF LoginInv, EndedLoginsAreDead
  <2> QED
    BY <1>1, <2>1, <2>2 DEF LoginInv
<1> QED
  BY <1>2, <1>3

\* There are no logins in the beginning.
LEMMA LoginInit == Init => LoginInv
  BY DEF Init, LoginInv, LoginsKnown, OneLivePerLogin, EndedLoginsAreDead, Issued

\* Every step keeps what is known of logins.
LEMMA LoginNext == Inv /\ LoginInv /\ [Next]_vars => LoginInv'
<1> SUFFICES ASSUME Inv, LoginInv, [Next]_vars PROVE LoginInv'
  OBVIOUS
<1>1. ASSUME token' = token, ended' = ended PROVE LoginInv'
  BY <1>1 DEF LoginInv, LoginsKnown, OneLivePerLogin, EndedLoginsAreDead, Issued, Live
<1>2. ASSUME NEW s \in Sessions, NEW u \in Users, Create(s, u) PROVE LoginInv'
  <2>1. PICK t \in Tokens : NextId(t) /\ token' = [token EXCEPT ![t] = NewToken(u, t)]
    BY <1>2 DEF Create
  <2>2. t \notin Issued /\ token'[t].login = t /\ token'[t] # NoToken /\ \A o \in Issued : token'[o] = token[o]
    BY <2>1, BoundsAssumption DEF NextId, Inv, TypeOK, NewToken, NoToken, Issued
  <2>3. Issued' = Issued \cup {t}
    BY <2>1, <2>2 DEF Issued, Inv, TypeOK
  <2>4. \A o \in Issued : Live(o)' => Live(o)
    BY <2>2, <2>3 DEF Live
  <2>5. ended' = ended
    BY <1>2 DEF Create
  <2> QED
    BY <2>2, <2>3, <2>4, <2>5, NewTokenKeeps
<1>3. ASSUME NEW s \in Sessions, RevokeAfterReuse(s) PROVE LoginInv'
  <2> DEFINE T == OfUser(token[proc[s].token].user)
  <2>1. Revoke(T, "suspected_reuse") /\ EndLogins(T, "suspected_reuse") /\ "suspected_reuse" \in Reasons
    BY <1>3 DEF RevokeAfterReuse, Reasons
  <2>2. T \in SUBSET Issued /\ \A e \in T, t \in Issued : token[t].login = token[e].login => t \in T
    BY DEF OfUser, LoginInv, LoginsKnown
  <2> QED
    BY <2>1, <2>2, EndLoginsKeeps
<1>4. ASSUME NEW s \in Sessions, Rotate(s) PROVE LoginInv'
  <2>1. PICK old \in Issued : old = proc[s].token /\ proc[s].wasLive
    <3>1. proc[s] # Idle
      BY <1>4 DEF Rotate, Idle
    <3> QED
      BY <1>4, <3>1 DEF Inv, TypeOK, ReadLive, Rotate
  <2>2. PICK t \in Tokens \ Issued :
           token' = [token EXCEPT ![t] = Successor(old, t, proc[s].wasLive), ![old] = RevokedForRotation(@, t)]
    BY <1>4, <2>1 DEF Rotate, NextId
  <2>3. /\ token'[t] = Successor(old, t, proc[s].wasLive) /\ token'[old] = RevokedForRotation(token[old], t)
        /\ \A o \in Tokens \ {t, old} : token'[o] = token[o]
    BY <2>1, <2>2 DEF Inv, TypeOK, Issued
  <2>4. /\ token'[t].user = token[old].user
        /\ token'[t].login = IF Live(old) THEN token[old].login ELSE t
        /\ token'[old].user = token[old].user /\ token'[old].login = token[old].login
        /\ token'[old].revoked = "rotate"
    <3>1. token[old] \in TokenRows
      BY RowsAreIssued DEF Inv, Issued
    <3>2. (IF proc[s].wasLive /\ ~Live(old) THEN t ELSE token[old].login) = IF Live(old) THEN token[old].login ELSE t
      BY <2>1, Zenon
    <3>3. token'[t].user = token[old].user /\ token'[t].login = IF Live(old) THEN token[old].login ELSE t
      BY <2>3, <3>2 DEF Successor, NewRotation
    <3> QED
      BY <2>3, <3>1, <3>3 DEF RevokedForRotation, TokenRows
  <2>5. Issued' = Issued \cup {t}
    <3>1. token'[t] # NoToken /\ token'[old] # NoToken
      BY <2>4, RowsAreIssued, BoundsAssumption DEF NoToken, TokenRows, Inv, Issued
    <3> QED
      BY <2>2, <2>3, <3>1 DEF Issued
  <2>6. \A o \in Issued \ {old} : token'[o] = token[o]
    BY <2>2, <2>3 DEF Issued
  <2>7. \A o \in Issued : /\ token'[o].login = token[o].login /\ token'[o].user = token[o].user
                          /\ Live(o)' => Live(o)
    <3>1. ~Live(old)'
      BY <2>4 DEF Live
    <3> QED
      BY <2>4, <2>6, <3>1 DEF Live
  <2>8. Live(old) => ~Live(old)' /\ token'[t].login = token[old].login
    BY <2>4 DEF Live
  <2>9. ~Live(old) => token'[t].login = t
    BY <2>4
  <2>10. ended' = ended
    BY <1>4 DEF Rotate
  <2> QED
    BY <2>2, <2>4, <2>5, <2>7, <2>8, <2>9, <2>10, NewTokenKeeps
<1>5. ASSUME NEW t \in Tokens, RevokeByHash(t) PROVE LoginInv'
  <2> DEFINE E == {o \in {t} : Live(o)}
  <2>1. Revoke({t}, "logout") /\ EndLogins(E, "logout") /\ "logout" \in Reasons
    BY <1>5 DEF RevokeByHash, Reasons
  <2>2. E \in SUBSET Issued /\ \A e \in E, o \in Issued : Live(o) /\ token[o].login = token[e].login => o \in {t}
    BY DEF Live, LoginInv, OneLivePerLogin
  <2> QED
    BY <2>1, <2>2, EndLoginsKeeps
<1>6. ASSUME NEW u \in Users, RevokeAllForUser(u) PROVE LoginInv'
  <2>1. Revoke(OfUser(u), "logout_all") /\ EndLogins(OfUser(u), "logout_all") /\ "logout_all" \in Reasons
    BY <1>6 DEF RevokeAllForUser, Reasons
  <2>2. /\ OfUser(u) \in SUBSET Issued
        /\ \A e \in OfUser(u), t \in Issued : token[t].login = token[e].login => t \in OfUser(u)
    BY DEF OfUser, LoginInv, LoginsKnown
  <2> QED
    BY <2>1, <2>2, EndLoginsKeeps
<1> QED
  BY <1>1, <1>2, <1>3, <1>4, <1>5, <1>6 DEF Next, vars, FindByTokenHash, Answer, Fail, Tick

\* Rows and logins together.
LEMMA Invariance == Spec => [](Inv /\ LoginInv)
  BY InitInv, NextInv, LoginInit, LoginNext, PTL DEF Spec

\* However refreshes, replays, logouts and failures interleave, a login has one live token at a
\* time; only a rotation that was overtaken by a revocation of its token begins another login.
THEOREM OneLiveToken == Spec => []OneLivePerLogin
<1>1. LoginInv => OneLivePerLogin
  BY DEF LoginInv
<1> QED
  BY <1>1, Invariance, PTL

\* A login that logout, logoutAll or the detection of reuse ended never has a live token again.
THEOREM EndedStayDead == Spec => []EndedLoginsAreDead
<1>1. LoginInv => EndedLoginsAreDead
  BY DEF LoginInv
<1> QED
  BY <1>1, Invariance, PTL

-----------------------------------------------------------------------------
(* Refreshes of tokens that are spent *)

\* What was rotated, or belongs to a login that was ended, is not live.
LEMMA SpentIsDead ==
  ASSUME Inv, LoginInv, NEW t \in Issued, Spent(t)
  PROVE  ~Live(t)
<1>1. CASE \E n \in Issued : token[n].from = t
  <2>1. PICK n \in Issued : token[n].from = t
    BY <1>1
  <2>2. t # 0
    BY DEF Issued, Tokens
  <2>3. token[t].revoked = "rotate"
    BY <2>1, <2>2 DEF Inv, RotationLinks
  <2> QED
    BY <2>3 DEF Live
<1>2. CASE \E reason \in Reasons : <<token[t].login, reason>> \in ended
  BY <1>2 DEF LoginInv, EndedLoginsAreDead
<1> QED
  BY <1>1, <1>2 DEF Spent

\* Nobody comes to rotate what is not live.
LEMMA NoNewRotator ==
  ASSUME Inv, [Next]_vars, NEW t \in Issued, ~Live(t)
  PROVE  Rotators(t)' \subseteq Rotators(t)
<1>1. \A s \in Sessions : proc[s] \in Locals
  BY DEF Inv, TypeOK
<1>2. ASSUME NEW s \in Sessions, NEW l, Become(s, l), ~(l.at = "rotate" /\ l.token = t)
      PROVE  Rotators(t)' \subseteq Rotators(t)
  BY <1>2 DEF Rotators, Become, Inv, TypeOK
<1>3. CASE UNCHANGED proc
  BY <1>3 DEF Rotators
<1>4. ASSUME NEW s \in Sessions, Become(s, Idle)
      PROVE  Rotators(t)' \subseteq Rotators(t)
  BY <1>2, <1>4 DEF Idle
<1>5. ASSUME NEW s \in Sessions, NEW u \in Users, Create(s, u)
      PROVE  Rotators(t)' \subseteq Rotators(t)
  BY <1>2, <1>5 DEF Create, Start
<1>6. ASSUME NEW s \in Sessions, NEW o \in Tokens, FindByTokenHash(s, o)
      PROVE  Rotators(t)' \subseteq Rotators(t)
  <2> DEFINE l == [op |-> "refresh", at |-> IF IsRevoked(o) THEN "reuse" ELSE "rotate", token |-> o, wasLive |-> Live(o)]
  <2>1. Become(s, l) /\ o \in Issued
    BY <1>6 DEF FindByTokenHash, Start, Inv, TypeOK
  <2>2. o = t => IsRevoked(o)
    BY <2>1 DEF Live, IsRevoked
  <2>3. ~(l.at = "rotate" /\ l.token = t)
    BY <2>2
  <2> HIDE DEF l
  <2> QED
    BY <1>2, <2>1, <2>3
<1>7. ASSUME NEW s \in Sessions, Rotate(s)
      PROVE  Rotators(t)' \subseteq Rotators(t)
  <2>1. PICK n \in Tokens : Become(s, [proc[s] EXCEPT !.at = "answer", !.token = n])
    BY <1>7 DEF Rotate
  <2>2. PICK l : l = [proc[s] EXCEPT !.at = "answer", !.token = n]
    OBVIOUS
  <2>3. l.at = "answer"
    BY <1>1, <2>2 DEF Locals
  <2> QED
    BY <1>2, <2>1, <2>2, <2>3
<1> QED
  BY <1>3, <1>4, <1>5, <1>6, <1>7
     DEF Next, vars, RevokeAfterReuse, Answer, Fail, RevokeByHash, RevokeAllForUser, Tick

\* A token that was rotated, or whose login was ended, is rotated again only by refreshes that had
\* read it before: no replay and no retry passes the check of it.
THEOREM SpentTokensAreRefused == Spec => NoLateRefresh
<1>1. Inv /\ LoginInv /\ [Next]_vars => [\A t \in Issued : Spent(t) => Rotators(t)' \subseteq Rotators(t)]_vars
  BY SpentIsDead, NoNewRotator
<1> QED
  BY <1>1, Invariance, PTL DEF Spec, NoLateRefresh
=============================================================================
