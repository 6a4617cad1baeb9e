------------------------------ MODULE AccountsProofs ------------------------------
(***************************************************************************)
(* Proofs about Accounts, for any number of handlers, accounts, addresses  *)
(* and codes: what is verified was proven, and a login by phone ends with  *)
(* tokens for the account that has the phone; and the handlers that accept *)
(* one code had all found it before the first of them consumed it.         *)
(***************************************************************************)
EXTENDS Accounts, TLAPS

Proven(a) == \E o \in Otps : otp[o] # NoOtp /\ otp[o].address = a /\ otp[o].consumed

PhoneProven(u) == Proven(user[u].phone)
EmailProven(u) ==
    user[u].email \in vouched \/ Proven(user[u].email) \/ <<u, user[u].email>> \in mistaken

PhonesDiffer == \A u, v \in Registered : user[u].phone = user[v].phone => u = v

\* What a handler knows at each of its steps.
KnowsAddress(s) ==
    /\ proc[s].op = "phone" => proc[s].address \in Phones
    /\ proc[s].op \in {"email", "google"} => proc[s].address \in Emails
    /\ proc[s].op = "profile" => proc[s].address \in Emails \cup {None}
KnowsCode(s) == proc[s].at = "consume" =>
    proc[s].otp \in Otps /\ otp[proc[s].otp] # NoOtp /\ otp[proc[s].otp].address = proc[s].address
HasProven(s) ==
    /\ proc[s].op = "phone" /\ proc[s].at \in {"find", "create", "verify", "grant"} => Proven(proc[s].address)
    /\ proc[s].op = "email" /\ proc[s].at \in {"find", "verify"} => Proven(proc[s].address)
    /\ At(s, "google", "create") => proc[s].address \in vouched
KnowsUser(s) == proc[s].at \in {"verify", "grant", "check", "save"} => proc[s].user \in Registered
KnowsOwner(s) ==
    /\ proc[s].op = "phone" /\ proc[s].at \in {"verify", "grant"} => user[proc[s].user].phone = proc[s].address
    /\ At(s, "phone", "grant") => user[proc[s].user].phoneVerified
WellFormed(s) == KnowsAddress(s) /\ KnowsCode(s) /\ HasProven(s) /\ KnowsUser(s) /\ KnowsOwner(s)

Inv == TypeOK /\ PhoneWasProven /\ EmailWasProven /\ PhonesDiffer /\ \A s \in Sessions : WellFormed(s)

\* No step forgets an account, its phone, its proof, a code or what history keeps.
Grows ==
    /\ \A u \in Registered : /\ u \in Registered' /\ user'[u].phone = user[u].phone
                             /\ user[u].phoneVerified => user'[u].phoneVerified
    /\ \A o \in Otps : otp[o] # NoOtp => /\ otp'[o] # NoOtp /\ otp'[o].address = otp[o].address
                                         /\ otp[o].consumed => otp'[o].consumed
    /\ vouched \subseteq vouched' /\ mistaken \subseteq mistaken'

\* The types of all variables but proc.
TableTypes ==
    /\ now \in 0..MaxTime
    /\ user \in [Users -> UserRows \cup {NoUser}]
    /\ otp \in [Otps -> OtpRows \cup {NoOtp}]
    /\ accepted \in [Otps -> Nat]
    /\ vouched \subseteq Emails
    /\ mistaken \subseteq Users \X (Emails \cup {None})

\* A row of a table is not the absence of one.
LEMMA NotRows == NoUser \notin UserRows /\ NoOtp \notin OtpRows
  BY AddressesAssumption DEF NoUser, UserRows, NoOtp, OtpRows, Addresses

\* What is no absence of a row is a row.
LEMMA Rows ==
  ASSUME TypeOK
  PROVE  /\ \A u \in Users : u \in Registered <=> user[u] \in UserRows
         /\ \A o \in Otps : otp[o] # NoOtp <=> otp[o] \in OtpRows
  BY NotRows DEF TypeOK, Registered

\* A handler that has ended has a local state.
LEMMA IdleType == Idle \in Locals
  BY DEF Idle, Locals

\* The initial state.
LEMMA InitInv == Init => Inv
<1> SUFFICES ASSUME Init PROVE Inv
  OBVIOUS
<1>1. TypeOK
  BY IdleType, BoundsAssumption DEF Init, TypeOK
<1>2. Registered = {}
  BY DEF Init, Registered
<1>3. \A s \in Sessions : WellFormed(s)
  BY DEF Init, WellFormed, KnowsAddress, KnowsCode, HasProven, KnowsUser, KnowsOwner, At, Idle
<1> QED
  BY <1>1, <1>2, <1>3 DEF Inv, PhoneWasProven, EmailWasProven, PhonesDiffer

\* What was known is still known after a step of somebody else.
LEMMA StillKnown ==
  ASSUME Inv, Grows, NEW p \in Sessions, proc'[p] = proc[p]
  PROVE  WellFormed(p)'
<1>1. \A a : Proven(a) => Proven(a)'
  BY DEF Grows, Proven
<1>2. KnowsAddress(p)'
  BY DEF Inv, WellFormed, KnowsAddress
<1>3. KnowsCode(p)'
  BY DEF Inv, WellFormed, KnowsCode, Grows
<1>4. HasProven(p)'
  BY <1>1 DEF Inv, WellFormed, HasProven, At, Grows
<1>5. KnowsUser(p)'
  BY DEF Inv, WellFormed, KnowsUser, Grows
<1>6. KnowsOwner(p)'
  BY DEF Inv, WellFormed, KnowsUser, KnowsOwner, Grows, At
<1> QED
  BY <1>2, <1>3, <1>4, <1>5, <1>6 DEF WellFormed

\* A step of one handler.
LEMMA HandlerStep ==
  ASSUME Inv, Grows, NEW s \in Sessions, NEW l \in Locals, Become(s, l), WellFormed(s)',
         TableTypes', PhoneWasProven', EmailWasProven', PhonesDiffer'
  PROVE  Inv'
<1>1. TypeOK'
  BY DEF Inv, TypeOK, TableTypes, Become
<1>2. ASSUME NEW p \in Sessions PROVE WellFormed(p)'
  BY <1>2, StillKnown DEF Become, Inv, TypeOK
<1> QED
  BY <1>1, <1>2 DEF Inv

\* While accounts are left alone, what was proven stays proven.
LEMMA StillProven ==
  ASSUME Inv, Grows, user' = user
  PROVE  PhoneWasProven' /\ EmailWasProven' /\ PhonesDiffer'
<1>1. Registered' = Registered
  BY DEF Registered
<1>2. PhoneWasProven'
  BY <1>1 DEF Inv, PhoneWasProven, Grows
<1>3. EmailWasProven'
  BY <1>1 DEF Inv, EmailWasProven, Grows
<1>4. PhonesDiffer'
  BY <1>1 DEF Inv, PhonesDiffer
<1> QED
  BY <1>2, <1>3, <1>4

\* Whoever writes no table keeps everything that is known of the tables.
LEMMA TablesKept ==
  ASSUME Inv, UNCHANGED <<now, user, otp, accepted, vouched, mistaken>>
  PROVE  Grows /\ TableTypes' /\ PhoneWasProven' /\ EmailWasProven' /\ PhonesDiffer'
<1>1. Grows
  BY DEF Grows, Registered
<1>2. TableTypes'
  BY DEF Inv, TypeOK, TableTypes
<1> QED
  BY <1>1, <1>2, StillProven

\* A handler ends, for whatever reason.
LEMMA EndsWell ==
  ASSUME NEW s \in Sessions, Inv, Become(s, Idle)
  PROVE  WellFormed(s)'
<1>1. proc'[s] = Idle
  BY DEF Become, Inv, TypeOK
<1> QED
  BY <1>1 DEF WellFormed, KnowsAddress, KnowsCode, HasProven, KnowsUser, KnowsOwner, At, Idle

\* A code that is inserted is new, and changes no other.
LEMMA InsertOtpKeeps ==
  ASSUME Inv, NEW a \in Addresses, NEW code \in Codes, InsertOtp(a, code)
  PROVE  /\ otp' \in [Otps -> OtpRows \cup {NoOtp}]
         /\ \A o \in Otps : otp[o] # NoOtp => otp'[o] = otp[o]
<1>1. PICK o \in Otps : otp[o] = NoOtp /\ otp' = [otp EXCEPT ![o] = NewOtp(a, code)]
  BY DEF InsertOtp, FirstFree
<1>2. NewOtp(a, code) \in OtpRows
  BY BoundsAssumption DEF NewOtp, OtpRows, Expiry, Inv, TypeOK
<1> QED
  BY <1>1, <1>2 DEF Inv, TypeOK

-----------------------------------------------------------------------------
(* Steps that leave the accounts alone *)

\* sendOtp writes a code that is not consumed, and proves nothing.
LEMMA SendOtpKeeps ==
  ASSUME Inv, NEW a \in Addresses, NEW code \in Codes, SendOtp(a, code)
  PROVE  Inv'
<1>1. UNCHANGED <<now, user, accepted, vouched, mistaken, proc>>
  BY DEF SendOtp
<1>2. /\ otp' \in [Otps -> OtpRows \cup {NoOtp}]
      /\ \A o \in Otps : otp[o] # NoOtp => otp'[o] = otp[o]
  BY InsertOtpKeeps DEF SendOtp
<1>3. Grows
  BY <1>1, <1>2 DEF Grows, Registered
<1>4. \A p \in Sessions : WellFormed(p)'
  BY <1>1, <1>3, StillKnown
<1>5. TypeOK'
  BY <1>1, <1>2 DEF Inv, TypeOK
<1> QED
  BY <1>1, <1>3, <1>4, <1>5, StillProven DEF Inv

\* A handler leaves findValidOtp with a code for the address it was called with.
LEMMA FindValidOtpKeeps ==
  ASSUME Inv, NEW s \in Sessions, NEW op \in {"phone", "email"},
         NEW a \in IF op = "phone" THEN Phones ELSE Emails, NEW code \in Codes, FindValidOtp(s, op, a, code)
  PROVE  Inv'
<1>1. PICK o \in Otps : /\ IsValid(o, a, code)
                        /\ Become(s, [Idle EXCEPT !.op = op, !.at = "consume", !.address = a, !.otp = o])
  BY DEF FindValidOtp, Start
<1> DEFINE l == [Idle EXCEPT !.op = op, !.at = "consume", !.address = a, !.otp = o]
<1>2. UNCHANGED <<now, user, otp, accepted, vouched, mistaken>>
  BY DEF FindValidOtp
<1>3. /\ l \in Locals /\ l.op = op /\ l.at = "consume" /\ l.address = a /\ l.otp = o
  BY DEF Idle, Locals, Addresses
<1>4. Become(s, l)
  BY <1>1
<1> HIDE DEF l
<1>5. proc'[s] = l
  BY <1>4 DEF Become, Inv, TypeOK
<1>6. WellFormed(s)'
  BY <1>1, <1>2, <1>3, <1>5 DEF WellFormed, KnowsAddress, KnowsCode, HasProven, KnowsUser, KnowsOwner, At, IsValid
<1> QED
  BY <1>2, <1>3, <1>4, <1>6, HandlerStep, TablesKept

\* markConsumed proves the address of the handler.
LEMMA MarkConsumedKeeps ==
  ASSUME Inv, NEW s \in Sessions, MarkConsumed(s)
  PROVE  Inv'
<1> DEFINE l == [proc[s] EXCEPT !.at = "find"]
<1>1. /\ proc[s].at = "consume" /\ UNCHANGED <<now, user, vouched, mistaken>> /\ Become(s, l)
      /\ otp' = [otp EXCEPT ![proc[s].otp].consumed = TRUE]
      /\ accepted' = [accepted EXCEPT ![proc[s].otp] = @ + 1]
  BY DEF MarkConsumed, SetConsumed
<1>2. PICK o \in Otps : o = proc[s].otp /\ otp[o] # NoOtp /\ otp[o].address = proc[s].address
  BY <1>1 DEF Inv, WellFormed, KnowsCode
<1>3. otp[o] \in OtpRows
  BY <1>2, Rows DEF Inv
<1>4. /\ otp' \in [Otps -> OtpRows \cup {NoOtp}]
      /\ \A x \in Otps \ {o} : otp'[x] = otp[x]
      /\ otp'[o] \in OtpRows /\ otp'[o].address = otp[o].address /\ otp'[o].consumed
  BY <1>1, <1>2, <1>3 DEF Inv, TypeOK, OtpRows
<1>5. Grows
  BY <1>1, <1>4, NotRows DEF Grows, Registered
<1>6. TableTypes'
  BY <1>1, <1>2, <1>4 DEF Inv, TypeOK, TableTypes
<1>7. /\ l \in Locals /\ l.op = proc[s].op /\ l.at = "find" /\ l.address = proc[s].address
  BY DEF Inv, TypeOK, Locals
<1> HIDE DEF l
<1>8. proc'[s] = l
  BY <1>1 DEF Become, Inv, TypeOK
<1>9. Proven(proc[s].address)'
  BY <1>2, <1>4, <1>7, <1>8, NotRows DEF Proven
<1>10. WellFormed(s)'
  BY <1>7, <1>8, <1>9 DEF Inv, WellFormed, KnowsAddress, KnowsCode, HasProven, KnowsUser, KnowsOwner, At
<1> QED
  BY <1>1, <1>5, <1>6, <1>7, <1>10, HandlerStep, StillProven

\* A handler that only reads, and goes on with l.
LEMMA ReadKeeps ==
  ASSUME Inv, NEW s \in Sessions, NEW l \in Locals, Become(s, l),
         UNCHANGED <<now, user, otp, accepted, vouched, mistaken>>, WellFormed(s)'
  PROVE  Inv'
  BY HandlerStep, TablesKept

\* A handler that ends, or fails, leaves the tables as they are.
LEMMA EndKeeps ==
  ASSUME Inv, NEW s \in Sessions, Become(s, Idle), UNCHANGED <<now, user, otp, accepted, vouched, mistaken>>
  PROVE  Inv'
  BY IdleType, EndsWell, ReadKeeps

\* findUserByPhone gives a login the account that has its phone, if there is one.
LEMMA FindUserByPhoneKeeps ==
  ASSUME Inv, NEW s \in Sessions, FindUserByPhone(s)
  PROVE  Inv'
<1>1. At(s, "phone", "find") /\ UNCHANGED <<now, user, otp, accepted, vouched, mistaken>> /\ proc[s] \in Locals
  BY DEF FindUserByPhone, Inv, TypeOK
<1>2. CASE Become(s, [proc[s] EXCEPT !.at = "create"])
  <2> DEFINE l == [proc[s] EXCEPT !.at = "create"]
  <2>1. l \in Locals /\ l.op = "phone" /\ l.at = "create" /\ l.address = proc[s].address
    BY <1>1 DEF Locals, At
  <2>2. Become(s, l)
    BY <1>2
  <2> HIDE DEF l
  <2>3. proc'[s] = l
    BY <2>2 DEF Become, Inv, TypeOK
  <2>4. WellFormed(s)'
    BY <1>1, <2>1, <2>3 DEF Inv, WellFormed, KnowsAddress, KnowsCode, HasProven, KnowsUser, KnowsOwner, At, Proven
  <2> QED
    BY <1>1, <2>1, <2>2, <2>4, ReadKeeps
<1>3. ASSUME NEW u \in FindByPhone(proc[s].address), Become(s, [proc[s] EXCEPT !.at = "verify", !.user = u])
      PROVE  Inv'
  <2> DEFINE l == [proc[s] EXCEPT !.at = "verify", !.user = u]
  <2>0. u \in Registered /\ u \in Users /\ user[u].phone = proc[s].address
    BY DEF FindByPhone, Registered
  <2>1. l \in Locals /\ l.op = "phone" /\ l.at = "verify" /\ l.address = proc[s].address /\ l.user = u
    BY <1>1, <2>0 DEF Locals, At
  <2>2. Become(s, l)
    BY <1>3
  <2> HIDE DEF l
  <2>3. proc'[s] = l
    BY <2>2 DEF Become, Inv, TypeOK
  <2>4. WellFormed(s)'
    BY <1>1, <2>0, <2>1, <2>3
       DEF Inv, WellFormed, KnowsAddress, KnowsCode, HasProven, KnowsUser, KnowsOwner, At, Proven, Registered
  <2> QED
    BY <1>1, <2>1, <2>2, <2>4, ReadKeeps
<1> QED
  BY <1>2, <1>3 DEF FindUserByPhone

\* findUserByEmail gives a handler an account that exists.
LEMMA FindUserByEmailKeeps ==
  ASSUME Inv, NEW s \in Sessions, FindUserByEmail(s)
  PROVE  Inv'
<1>1. At(s, "email", "find") /\ UNCHANGED <<now, user, otp, accepted, vouched, mistaken>> /\ proc[s] \in Locals
  BY DEF FindUserByEmail, Inv, TypeOK
<1>2. CASE Become(s, Idle)
  BY <1>1, <1>2, EndKeeps
<1>3. ASSUME NEW u \in FindByEmail(proc[s].address), Become(s, [proc[s] EXCEPT !.at = "verify", !.user = u])
      PROVE  Inv'
  <2> DEFINE l == [proc[s] EXCEPT !.at = "verify", !.user = u]
  <2>0. u \in Registered /\ u \in Users
    BY DEF FindByEmail, Registered
  <2>1. l \in Locals /\ l.op = "email" /\ l.at = "verify" /\ l.address = proc[s].address /\ l.user = u
    BY <1>1, <2>0 DEF Locals, At
  <2>2. Become(s, l)
    BY <1>3
  <2> HIDE DEF l
  <2>3. proc'[s] = l
    BY <2>2 DEF Become, Inv, TypeOK
  <2>4. WellFormed(s)'
    BY <1>1, <2>0, <2>1, <2>3
       DEF Inv, WellFormed, KnowsAddress, KnowsCode, HasProven, KnowsUser, KnowsOwner, At, Proven, Registered
  <2> QED
    BY <1>1, <2>1, <2>2, <2>4, ReadKeeps
<1> QED
  BY <1>2, <1>3 DEF FindUserByEmail

\* A sign-in by Google vouches for its address.
LEMMA HandleGoogleLoginKeeps ==
  ASSUME Inv, NEW s \in Sessions, NEW a \in Emails, HandleGoogleLogin(s, a)
  PROVE  Inv'
<1>1. UNCHANGED <<now, user, otp, accepted, mistaken>> /\ vouched' = vouched \cup {a}
  BY DEF HandleGoogleLogin
<1>2. Grows /\ TableTypes'
  BY <1>1 DEF Grows, Registered, Inv, TypeOK, TableTypes
<1>3. PICK l \in Locals : /\ Become(s, l) /\ l.op = "google" /\ l.address = a
                          /\ \/ l.at = "create"
                             \/ l.at = "grant" /\ l.user \in Registered
  <2> DEFINE create == [Idle EXCEPT !.op = "google", !.address = a, !.at = "create"]
             grant(u) == [Idle EXCEPT !.op = "google", !.address = a, !.at = "grant", !.user = u]
  <2>1. Become(s, create) \/ \E u \in FindByEmail(a) : Become(s, grant(u))
    BY DEF HandleGoogleLogin, Start, Idle
  <2>2. create \in Locals /\ create.op = "google" /\ create.address = a /\ create.at = "create"
    BY DEF Idle, Locals, Addresses
  <2>3. \A u \in FindByEmail(a) : /\ grant(u) \in Locals /\ grant(u).op = "google" /\ grant(u).address = a
                                  /\ grant(u).at = "grant" /\ grant(u).user \in Registered
    BY DEF Idle, Locals, Addresses, FindByEmail, Registered
  <2> QED
    BY <2>1, <2>2, <2>3
<1>4. proc'[s] = l
  BY <1>3 DEF Become, Inv, TypeOK
<1>5. WellFormed(s)'
  BY <1>1, <1>3, <1>4
     DEF Inv, WellFormed, KnowsAddress, KnowsCode, HasProven, KnowsUser, KnowsOwner, At, Registered
<1> QED
  BY <1>1, <1>2, <1>3, <1>5, HandlerStep, StillProven

\* PATCH users begins with an account that exists, and an e-mail address or none.
LEMMA UpdateKeeps ==
  ASSUME Inv, NEW s \in Sessions, NEW u \in Users, NEW a \in Emails \cup {None}, Update(s, u, a)
  PROVE  Inv'
<1> DEFINE l == [Idle EXCEPT !.op = "profile", !.at = IF a = None THEN "save" ELSE "check", !.address = a, !.user = u]
<1>1. Become(s, l) /\ u \in Registered /\ UNCHANGED <<now, user, otp, accepted, vouched, mistaken>>
  BY DEF Update, Start
<1>2. l \in Locals /\ l.op = "profile" /\ l.at \in {"save", "check"} /\ l.address = a /\ l.user = u
  BY DEF Idle, Locals, Addresses
<1> HIDE DEF l
<1>3. proc'[s] = l
  BY <1>1 DEF Become, Inv, TypeOK
<1>4. WellFormed(s)'
  BY <1>1, <1>2, <1>3 DEF WellFormed, KnowsAddress, KnowsCode, HasProven, KnowsUser, KnowsOwner, At, Registered
<1> QED
  BY <1>1, <1>2, <1>4, ReadKeeps

\* The search for the address of another account changes no table.
LEMMA CheckEmailInUseKeeps ==
  ASSUME Inv, NEW s \in Sessions, CheckEmailInUse(s)
  PROVE  Inv'
<1>1. At(s, "profile", "check") /\ UNCHANGED <<now, user, otp, accepted, vouched, mistaken>> /\ proc[s] \in Locals
  BY DEF CheckEmailInUse, Inv, TypeOK
<1>2. CASE Become(s, Idle)
  BY <1>1, <1>2, EndKeeps
<1>3. CASE Become(s, [proc[s] EXCEPT !.at = "save"])
  <2> DEFINE l == [proc[s] EXCEPT !.at = "save"]
  <2>1. /\ l \in Locals /\ l.op = "profile" /\ l.at = "save" /\ l.address = proc[s].address
        /\ l.user = proc[s].user
    BY <1>1 DEF Locals, At
  <2>2. Become(s, l)
    BY <1>3
  <2> HIDE DEF l
  <2>3. proc'[s] = l
    BY <2>2 DEF Become, Inv, TypeOK
  <2>4. WellFormed(s)'
    BY <1>1, <2>1, <2>3 DEF Inv, WellFormed, KnowsAddress, KnowsCode, HasProven, KnowsUser, KnowsOwner, At, Registered
  <2> QED
    BY <1>1, <2>1, <2>2, <2>4, ReadKeeps
<1> QED
  BY <1>2, <1>3 DEF CheckEmailInUse

-----------------------------------------------------------------------------
(* Steps that write accounts *)

\* An account is created when its verified phone or address was proven, and for a phone that
\* no other account has.
LEMMA InsertUserKeeps ==
  ASSUME Inv, NEW s \in Sessions, NEW row \in UserRows, InsertUser(s, row),
         UNCHANGED <<now, otp, accepted, vouched, mistaken>>,
         row.phoneVerified => Proven(row.phone), row.emailVerified => row.email \in vouched,
         proc[s].at = "create", proc[s].op \in {"phone", "google"},
         proc[s].op = "phone" => row.phone = proc[s].address /\ row.phoneVerified
  PROVE  Inv'
<1>1. CASE Become(s, Idle) /\ UNCHANGED user
  BY <1>1, EndKeeps
<1>2. ASSUME NEW u \in Users, FirstFree(u, Users \ Registered), Unique(u, row.phone, row.email),
             user' = [user EXCEPT ![u] = row], Become(s, [proc[s] EXCEPT !.at = "grant", !.user = u])
      PROVE  Inv'
  <2> DEFINE l == [proc[s] EXCEPT !.at = "grant", !.user = u]
  <2>1. u \notin Registered /\ user' \in [Users -> UserRows \cup {NoUser}] /\ user'[u] = row
        /\ \A v \in Users \ {u} : user'[v] = user[v]
    BY <1>2 DEF FirstFree, Inv, TypeOK
  <2>2. Registered' = Registered \cup {u}
    BY <2>1, NotRows DEF Registered
  <2>3. \A v \in Registered : user'[v] = user[v]
    BY <2>1 DEF Registered
  <2>4. Grows
    BY <2>2, <2>3 DEF Grows
  <2>5. PhoneWasProven'
    BY <2>1, <2>2, <2>3 DEF Inv, PhoneWasProven, Proven
  <2>6. EmailWasProven'
    BY <2>1, <2>2, <2>3 DEF Inv, EmailWasProven
  <2>7. PhonesDiffer'
    BY <1>2, <2>1, <2>2, <2>3 DEF Inv, PhonesDiffer, Unique
  <2>8. l \in Locals /\ l.op = proc[s].op /\ l.at = "grant" /\ l.address = proc[s].address /\ l.user = u
    BY DEF Inv, TypeOK, Locals
  <2>9. Become(s, l)
    BY <1>2
  <2> HIDE DEF l
  <2>10. proc'[s] = l
    BY <2>9 DEF Become, Inv, TypeOK
  <2>11. WellFormed(s)'
    <3>1. KnowsAddress(s)' /\ KnowsCode(s)' /\ KnowsUser(s)'
      BY <2>2, <2>8, <2>10 DEF Inv, WellFormed, KnowsAddress, KnowsCode, KnowsUser
    <3>2. HasProven(s)'
      BY <2>8, <2>10 DEF Inv, WellFormed, HasProven, At, Proven
    <3>3. KnowsOwner(s)'
      BY <2>1, <2>8, <2>10 DEF KnowsOwner, At
    <3> QED
      BY <3>1, <3>2, <3>3 DEF WellFormed
  <2>12. TableTypes'
    BY <2>1 DEF Inv, TypeOK, TableTypes
  <2> QED
    BY <2>4, <2>5, <2>6, <2>7, <2>8, <2>9, <2>11, <2>12, HandlerStep
<1> QED
  BY <1>1, <1>2 DEF InsertUser

\* A login creates an account with the phone it has proven.
LEMMA CreatePhoneUserKeeps ==
  ASSUME Inv, NEW s \in Sessions, CreatePhoneUser(s)
  PROVE  Inv'
<1>1. At(s, "phone", "create") /\ UNCHANGED <<now, otp, accepted, vouched, mistaken>>
  BY DEF CreatePhoneUser
<1>2. proc[s].address \in Phones /\ Proven(proc[s].address)
  BY <1>1 DEF Inv, WellFormed, KnowsAddress, HasProven, At
<1> DEFINE row == NewPhoneUser(proc[s].address)
<1>3. row \in UserRows /\ row.phone = proc[s].address /\ row.phoneVerified /\ ~row.emailVerified
  BY <1>2 DEF NewPhoneUser, UserRows
<1>4. InsertUser(s, row)
  BY DEF CreatePhoneUser
<1> HIDE DEF row
<1> QED
  BY <1>1, <1>2, <1>3, <1>4, InsertUserKeeps DEF At

\* A login by Google creates an account with an address that Google vouches for.
LEMMA CreateGoogleUserKeeps ==
  ASSUME Inv, NEW s \in Sessions, CreateGoogleUser(s)
  PROVE  Inv'
<1>1. At(s, "google", "create") /\ UNCHANGED <<now, otp, accepted, vouched, mistaken>>
  BY DEF CreateGoogleUser
<1>2. proc[s].address \in Emails /\ proc[s].address \in vouched
  BY <1>1 DEF Inv, WellFormed, KnowsAddress, HasProven, At
<1> DEFINE row == NewGoogleUser(proc[s].address)
<1>3. row \in UserRows /\ row.email = proc[s].address /\ ~row.phoneVerified
  BY <1>2 DEF NewGoogleUser, UserRows
<1>4. InsertUser(s, row)
  BY DEF CreateGoogleUser
<1> HIDE DEF row
<1> QED
  BY <1>1, <1>2, <1>3, <1>4, InsertUserKeeps DEF At

\* A login marks the phone of its account verified, which is the one it has proven.
LEMMA MarkPhoneVerifiedKeeps ==
  ASSUME Inv, NEW s \in Sessions, MarkPhoneVerified(s)
  PROVE  Inv'
<1> DEFINE l == [proc[s] EXCEPT !.at = "grant"]
<1>1. /\ At(s, "phone", "verify") /\ UNCHANGED <<now, otp, accepted, vouched, mistaken>> /\ Become(s, l)
      /\ user' = [user EXCEPT ![proc[s].user].phoneVerified = TRUE]
  BY DEF MarkPhoneVerified
<1>2. PICK u \in Registered : u = proc[s].user /\ user[u].phone = proc[s].address
  BY <1>1 DEF Inv, WellFormed, KnowsUser, KnowsOwner, At
<1>3. user[u] \in UserRows /\ u \in Users
  BY <1>2, Rows DEF Inv, Registered
<1>4. /\ user' \in [Users -> UserRows \cup {NoUser}] /\ user'[u] \in UserRows
      /\ user'[u].phone = user[u].phone /\ user'[u].phoneVerified
      /\ user'[u].email = user[u].email /\ user'[u].emailVerified = user[u].emailVerified
      /\ \A v \in Users \ {u} : user'[v] = user[v]
  BY <1>1, <1>2, <1>3 DEF Inv, TypeOK, UserRows
<1>5. Registered' = Registered
  BY <1>3, <1>4, NotRows DEF Registered
<1>6. \A v \in Registered \ {u} : user'[v] = user[v]
  BY <1>4 DEF Registered
<1>7. Grows
  BY <1>1, <1>4, <1>5, <1>6 DEF Grows
<1>8. Proven(user[u].phone)
  BY <1>1, <1>2 DEF Inv, WellFormed, HasProven, At
<1>9. PhoneWasProven'
  <2> SUFFICES ASSUME NEW v \in Registered, user'[v].phoneVerified
               PROVE  PhoneProven(v)'
    BY <1>5 DEF PhoneWasProven, PhoneProven, Proven
  <2>1. CASE v = u
    BY <1>1, <1>4, <1>8, <2>1 DEF PhoneProven, Proven
  <2>2. CASE v # u
    <3>1. user'[v] = user[v]
      BY <1>6, <2>2
    <3>2. user[v].phoneVerified
      BY <3>1, Zenon
    <3>3. PhoneProven(v)
      BY <3>2 DEF Inv, PhoneWasProven, PhoneProven, Proven
    <3> QED
      BY <1>1, <3>1, <3>3 DEF PhoneProven, Proven
  <2> QED
    BY <2>1, <2>2
<1>10. EmailWasProven'
  BY <1>1, <1>4, <1>5, <1>6 DEF Inv, EmailWasProven
<1>11. PhonesDiffer'
  BY <1>4, <1>5, <1>6 DEF Inv, PhonesDiffer
<1>12. /\ l \in Locals /\ l.op = "phone" /\ l.at = "grant" /\ l.address = proc[s].address /\ l.user = proc[s].user
  BY <1>1 DEF Inv, TypeOK, Locals, At
<1> HIDE DEF l
<1>13. proc'[s] = l
  BY <1>1 DEF Become, Inv, TypeOK
<1>14. WellFormed(s)'
  <2>1. KnowsAddress(s)' /\ KnowsCode(s)' /\ KnowsUser(s)'
    BY <1>1, <1>2, <1>5, <1>12, <1>13 DEF Inv, WellFormed, KnowsAddress, KnowsCode, KnowsUser, At
  <2>2. HasProven(s)'
    BY <1>1, <1>2, <1>8, <1>12, <1>13 DEF HasProven, At, Proven
  <2>3. KnowsOwner(s)'
    BY <1>2, <1>4, <1>12, <1>13 DEF KnowsOwner, At
  <2> QED
    BY <2>1, <2>2, <2>3 DEF WellFormed
<1>15. TableTypes'
  BY <1>1, <1>4 DEF Inv, TypeOK, TableTypes
<1> QED
  BY <1>1, <1>7, <1>9, <1>10, <1>11, <1>12, <1>14, <1>15, HandlerStep

\* verifyEmailOtp marks an address that was proven, or its mark is one of the mistaken ones.
LEMMA MarkEmailVerifiedKeeps ==
  ASSUME Inv, NEW s \in Sessions, MarkEmailVerified(s)
  PROVE  Inv'
<1> DEFINE email == user[proc[s].user].email
<1>1. /\ At(s, "email", "verify") /\ UNCHANGED <<now, otp, accepted, vouched>> /\ Become(s, Idle)
      /\ user' = [user EXCEPT ![proc[s].user].emailVerified = TRUE]
      /\ mistaken' = IF email = proc[s].address THEN mistaken ELSE mistaken \cup {<<proc[s].user, email>>}
  BY DEF MarkEmailVerified
<1>2. PICK u \in Registered : u = proc[s].user
  BY <1>1 DEF Inv, WellFormed, KnowsUser, At
<1>3. user[u] \in UserRows /\ u \in Users
  BY <1>2, Rows DEF Inv, Registered
<1>4. /\ user' \in [Users -> UserRows \cup {NoUser}] /\ user'[u] \in UserRows
      /\ user'[u].phone = user[u].phone /\ user'[u].phoneVerified = user[u].phoneVerified
      /\ user'[u].email = user[u].email
      /\ \A v \in Users \ {u} : user'[v] = user[v]
  BY <1>1, <1>2, <1>3 DEF Inv, TypeOK, UserRows
<1>5. Registered' = Registered
  BY <1>3, <1>4, NotRows DEF Registered
<1>6. \A v \in Registered \ {u} : user'[v] = user[v]
  BY <1>4 DEF Registered
<1>7. mistaken \subseteq mistaken'
  BY <1>1, SMTT(40)
<1>8. Grows
  BY <1>1, <1>4, <1>5, <1>6, <1>7 DEF Grows
<1>9. Proven(user[u].email) \/ <<u, user[u].email>> \in mistaken'
  <2>1. Proven(proc[s].address)
    BY <1>1 DEF Inv, WellFormed, HasProven, At
  <2> QED
    BY <1>1, <1>2, <2>1
<1>10. PhoneWasProven'
  <2> SUFFICES ASSUME NEW v \in Registered, user'[v].phoneVerified
               PROVE  PhoneProven(v)'
    BY <1>5 DEF PhoneWasProven, PhoneProven, Proven
  <2>1. user'[v].phone = user[v].phone
    BY <1>4, <1>6
  <2>2. user[v].phoneVerified
    <3>1. CASE v = u
      BY <1>4, <3>1, Zenon
    <3>2. CASE v # u
      BY <1>6, <3>2, Zenon
    <3> QED
      BY <3>1, <3>2
  <2>3. PhoneProven(v)
    BY <2>2 DEF Inv, PhoneWasProven, PhoneProven, Proven
  <2> QED
    BY <1>1, <2>1, <2>3 DEF PhoneProven, Proven
<1>11. EmailWasProven'
  <2> SUFFICES ASSUME NEW v \in Registered, user'[v].emailVerified, user'[v].email # None
               PROVE  EmailProven(v)'
    BY <1>5, SMTT(40) DEF EmailWasProven, EmailProven, Proven
  <2>1. CASE v = u
    BY <1>1, <1>2, <1>4, <1>9, <2>1 DEF EmailProven, Proven
  <2>2. CASE v # u
    <3>1. user'[v] = user[v]
      BY <1>6, <2>2
    <3>2. user[v].emailVerified
      BY <3>1, Zenon
    <3>3. EmailProven(v)
      BY <3>1, <3>2 DEF Inv, EmailWasProven, EmailProven, Proven
    <3> QED
      BY <1>1, <1>7, <3>1, <3>3 DEF EmailProven, Proven
  <2> QED
    BY <2>1, <2>2
<1>12. PhonesDiffer'
  BY <1>4, <1>5, <1>6 DEF Inv, PhonesDiffer
<1>13. TableTypes'
  BY <1>1, <1>2, <1>3, <1>4 DEF Inv, TypeOK, TableTypes, UserRows
<1> QED
  BY <1>1, <1>8, <1>10, <1>11, <1>12, <1>13, IdleType, EndsWell, HandlerStep

\* Another address is not verified, and the code for it is new.
LEMMA UpdateByIdKeeps ==
  ASSUME Inv, NEW s \in Sessions, UpdateById(s)
  PROVE  Inv'
<1> DEFINE a == proc[s].address
<1>1. At(s, "profile", "save") /\ UNCHANGED <<now, accepted, vouched, mistaken>> /\ Become(s, Idle)
  BY DEF UpdateById
<1>2. CASE UNCHANGED <<user, otp>>
  BY <1>1, <1>2, EndKeeps
<1>3. ASSUME user' = [user EXCEPT ![proc[s].user] = WithEmail(@, a)],
             IF a = None THEN UNCHANGED otp ELSE \E code \in Codes : InsertOtp(a, code)
      PROVE  Inv'
  <2>1. PICK u \in Registered : u = proc[s].user
    BY <1>1 DEF Inv, WellFormed, KnowsUser, At
  <2>2. a \in Emails \cup {None}
    BY <1>1 DEF Inv, WellFormed, KnowsAddress, At
  <2>3. user[u] \in UserRows /\ u \in Users
    BY <2>1, Rows DEF Inv, Registered
  <2>4. (user[u].emailVerified /\ a = None) \in BOOLEAN /\ ((user[u].emailVerified /\ a = None) => a = None)
    OBVIOUS
  <2>5. /\ WithEmail(user[u], a) \in UserRows
        /\ WithEmail(user[u], a).phone = user[u].phone
        /\ WithEmail(user[u], a).phoneVerified = user[u].phoneVerified
        /\ WithEmail(user[u], a).email = a
        /\ WithEmail(user[u], a).emailVerified => a = None
    BY <2>2, <2>3, <2>4 DEF WithEmail, UserRows
  <2>6. /\ user' \in [Users -> UserRows \cup {NoUser}] /\ user'[u] = WithEmail(user[u], a)
        /\ \A v \in Users \ {u} : user'[v] = user[v]
    BY <1>3, <2>1, <2>3, <2>5 DEF Inv, TypeOK
  <2>7. Registered' = Registered
    BY <2>3, <2>5, <2>6, NotRows DEF Registered
  <2>8. \A v \in Registered \ {u} : user'[v] = user[v]
    BY <2>6 DEF Registered
  <2>9. /\ otp' \in [Otps -> OtpRows \cup {NoOtp}]
        /\ \A o \in Otps : otp[o] # NoOtp => otp'[o] = otp[o]
    <3>1. CASE a = None
      BY <1>3, <3>1 DEF Inv, TypeOK
    <3>2. CASE a # None
      BY <1>3, <2>2, <3>2, InsertOtpKeeps DEF Addresses
    <3> QED
      BY <3>1, <3>2
  <2>10. Grows
    BY <1>1, <2>5, <2>6, <2>7, <2>8, <2>9 DEF Grows
  <2>11. PhoneWasProven'
    BY <2>5, <2>6, <2>7, <2>8, <2>9 DEF Inv, PhoneWasProven
  <2>12. EmailWasProven'
    <3> SUFFICES ASSUME NEW v \in Registered, user'[v].emailVerified, user'[v].email # None
                 PROVE  EmailProven(v)'
      BY <2>7 DEF EmailWasProven, EmailProven, Proven
    <3>1. v # u
      <4> SUFFICES ASSUME v = u PROVE FALSE
        OBVIOUS
      <4>1. user'[u].email = a
        BY <2>5, <2>6
      <4>2. WithEmail(user[u], a).emailVerified
        BY <2>6, Zenon
      <4> QED
        BY <2>5, <4>1, <4>2, Zenon
    <3>2. user'[v] = user[v]
      BY <2>8, <3>1
    <3>3. user[v].emailVerified
      BY <3>2, Zenon
    <3>4. EmailProven(v)
      BY <3>2, <3>3 DEF Inv, EmailWasProven, EmailProven, Proven
    <3> QED
      BY <1>1, <2>9, <3>2, <3>4 DEF EmailProven, Proven
  <2>13. PhonesDiffer'
    BY <2>5, <2>6, <2>7, <2>8 DEF Inv, PhonesDiffer
  <2>14. TableTypes'
    BY <1>1, <2>6, <2>9 DEF Inv, TypeOK, TableTypes
  <2> QED
    BY <1>1, <2>10, <2>11, <2>12, <2>13, <2>14, IdleType, EndsWell, HandlerStep
<1> QED
  BY <1>2, <1>3 DEF UpdateById

\* Time passes: nothing that is known depends on it.
LEMMA TickKeeps == ASSUME Inv, Tick PROVE Inv'
<1>1. UNCHANGED <<user, otp, accepted, vouched, mistaken, proc>> /\ now' \in 0..MaxTime
  BY BoundsAssumption DEF Tick, Inv, TypeOK
<1>2. Grows
  BY <1>1 DEF Grows, Registered
<1>3. \A p \in Sessions : WellFormed(p)'
  BY <1>1, <1>2, StillKnown
<1>4. TypeOK'
  BY <1>1 DEF Inv, TypeOK
<1> QED
  BY <1>1, <1>2, <1>3, <1>4, StillProven DEF Inv

-----------------------------------------------------------------------------
(* Theorems *)

\* Every step keeps the invariant.
LEMMA NextInv == Inv /\ [Next]_vars => Inv'
<1> SUFFICES ASSUME Inv, [Next]_vars PROVE Inv'
  OBVIOUS
<1>1. CASE UNCHANGED vars
  <2>1. Grows /\ UNCHANGED proc
    BY <1>1, TablesKept DEF vars
  <2>2. \A p \in Sessions : WellFormed(p)'
    BY <2>1, StillKnown
  <2>3. TypeOK'
    BY <1>1 DEF Inv, TypeOK, vars
  <2> QED
    BY <1>1, <2>1, <2>2, <2>3, StillProven DEF Inv, vars
<1>2. ASSUME NEW a \in Addresses, NEW code \in Codes, SendOtp(a, code) PROVE Inv'
  BY <1>2, SendOtpKeeps
<1>3. ASSUME NEW s \in Sessions, NEW a \in Phones, NEW code \in Codes, FindValidOtp(s, "phone", a, code) PROVE Inv'
  BY <1>3, FindValidOtpKeeps
<1>4. ASSUME NEW s \in Sessions, NEW a \in Emails, NEW code \in Codes, FindValidOtp(s, "email", a, code) PROVE Inv'
  BY <1>4, FindValidOtpKeeps
<1>5. ASSUME NEW s \in Sessions, MarkConsumed(s) PROVE Inv'
  BY <1>5, MarkConsumedKeeps
<1>6. ASSUME NEW s \in Sessions, FindUserByPhone(s) PROVE Inv'
  BY <1>6, FindUserByPhoneKeeps
<1>7. ASSUME NEW s \in Sessions, CreatePhoneUser(s) PROVE Inv'
  BY <1>7, CreatePhoneUserKeeps
<1>8. ASSUME NEW s \in Sessions, MarkPhoneVerified(s) PROVE Inv'
  BY <1>8, MarkPhoneVerifiedKeeps
<1>9. ASSUME NEW s \in Sessions, GenerateTokens(s) \/ Fail(s) PROVE Inv'
  BY <1>9, EndKeeps DEF GenerateTokens, Fail
<1>10. ASSUME NEW s \in Sessions, FindUserByEmail(s) PROVE Inv'
  BY <1>10, FindUserByEmailKeeps
<1>11. ASSUME NEW s \in Sessions, MarkEmailVerified(s) PROVE Inv'
  BY <1>11, MarkEmailVerifiedKeeps
<1>12. ASSUME NEW s \in Sessions, NEW a \in Emails, HandleGoogleLogin(s, a) PROVE Inv'
  BY <1>12, HandleGoogleLoginKeeps
<1>13. ASSUME NEW s \in Sessions, CreateGoogleUser(s) PROVE Inv'
  BY <1>13, CreateGoogleUserKeeps
<1>14. ASSUME NEW s \in Sessions, NEW u \in Users, NEW a \in Emails \cup {None}, Update(s, u, a) PROVE Inv'
  BY <1>14, UpdateKeeps
<1>15. ASSUME NEW s \in Sessions, CheckEmailInUse(s) PROVE Inv'
  BY <1>15, CheckEmailInUseKeeps
<1>16. ASSUME NEW s \in Sessions, UpdateById(s) PROVE Inv'
  BY <1>16, UpdateByIdKeeps
<1>17. CASE Tick
  BY <1>17, TickKeeps
<1> QED
  BY <1>1, <1>2, <1>3, <1>4, <1>5, <1>6, <1>7, <1>8, <1>9, <1>10, <1>11, <1>12, <1>13, <1>14, <1>15, <1>16, <1>17
     DEF Next

\* The invariant holds in every state.
LEMMA Invariance == Spec => []Inv
  BY InitInv, NextInv, PTL DEF Spec

\* The rows of users and codes, the histories and the handlers keep their types.
THEOREM TypeCorrect == Spec => []TypeOK
<1>1. Inv => TypeOK
  BY DEF Inv
<1> QED
  BY <1>1, Invariance, PTL

\* However first logins, logins and failures interleave, verifyPhoneOtp marks a phone as verified
\* only after a code that was sent to it was used.
THEOREM PhonesAreProven == Spec => []PhoneWasProven
<1>1. Inv => PhoneWasProven
  BY DEF Inv
<1> QED
  BY <1>1, Invariance, PTL

\* However addresses change and pass from account to account, an address is verified only after
\* a code sent to it was used or Google vouched for it; but for an account that changed its
\* address between verifyEmailOtp's search for it and its update.
THEOREM EmailsAreProven == Spec => []EmailWasProven
<1>1. Inv => EmailWasProven
  BY DEF Inv
<1> QED
  BY <1>1, Invariance, PTL

\* A login by phone ends with tokens for the one account that has the phone.
THEOREM TokensForTheRightPhone == Spec => []TokensForProvenPhone
<1>1. Inv => TokensForProvenPhone
  <2> SUFFICES ASSUME Inv, NEW s \in Sessions, At(s, "phone", "grant")
               PROVE  /\ FindByPhone(proc[s].address) = {proc[s].user}
                      /\ user[proc[s].user].phoneVerified
    BY DEF TokensForProvenPhone
  <2>1. proc[s].user \in Registered /\ user[proc[s].user].phone = proc[s].address /\ user[proc[s].user].phoneVerified
    BY DEF Inv, WellFormed, KnowsUser, KnowsOwner, At
  <2> QED
    BY <2>1 DEF FindByPhone, Inv, PhonesDiffer
<1> QED
  BY <1>1, Invariance, PTL

-----------------------------------------------------------------------------
(* The rounds in which a code is accepted *)

\* A code that was accepted is consumed.
Accepted(o) == accepted[o] > 0 => otp[o] # NoOtp /\ otp[o].consumed
UsedInv == \A o \in Otps : Accepted(o)

\* No step brings a consumed code back.
CodesStay == \A o \in Otps : otp[o] # NoOtp /\ otp[o].consumed => otp'[o] # NoOtp /\ otp'[o].consumed

\* Nobody comes to hold a code that was accepted.
NoNewHolder == \A o \in Otps : accepted[o] > 0 => Holders(o)' \subseteq Holders(o)
OneRound == UsedInv' /\ NoNewHolder

\* A step of a handler that has not just found a code, and accepts none.
LEMMA RoundKept ==
  ASSUME Inv, UsedInv, NEW s \in Sessions, NEW l, Become(s, l), l.at # "consume", accepted' = accepted, CodesStay
  PROVE  OneRound
<1>1. UsedInv'
  BY DEF UsedInv, Accepted, CodesStay
<1>2. \A o \in Otps : Holders(o)' \subseteq Holders(o)
  BY DEF Holders, Become, Inv, TypeOK
<1> QED
  BY <1>1, <1>2 DEF OneRound, NoNewHolder

\* A code that is found has not been accepted, and its holders are nobody else's.
LEMMA FindKeepsRound ==
  ASSUME Inv, UsedInv, NEW s \in Sessions, NEW op, NEW a, NEW code, FindValidOtp(s, op, a, code)
  PROVE  OneRound
<1>1. PICK o \in Otps : /\ IsValid(o, a, code)
                        /\ Become(s, [Idle EXCEPT !.op = op, !.at = "consume", !.address = a, !.otp = o])
  BY DEF FindValidOtp, Start
<1>2. otp' = otp /\ accepted' = accepted
  BY DEF FindValidOtp
<1> DEFINE l == [Idle EXCEPT !.op = op, !.at = "consume", !.address = a, !.otp = o]
<1>3. l.otp = o /\ Become(s, l)
  BY <1>1 DEF Idle
<1> HIDE DEF l
<1>4. ~(accepted[o] > 0)
  BY <1>1 DEF UsedInv, Accepted, IsValid
<1>5. ASSUME NEW x \in Otps \ {o}
      PROVE  Holders(x)' \subseteq Holders(x)
  BY <1>3 DEF Holders, Become, Inv, TypeOK
<1>6. UsedInv'
  BY <1>2 DEF UsedInv, Accepted
<1> QED
  BY <1>4, <1>5, <1>6 DEF OneRound, NoNewHolder

\* Who consumes a code is no longer one of its holders.
LEMMA ConsumeKeepsRound ==
  ASSUME Inv, UsedInv, NEW s \in Sessions, MarkConsumed(s)
  PROVE  OneRound
<1>1. PICK o \in Otps : o = proc[s].otp /\ otp[o] # NoOtp
  BY DEF MarkConsumed, Inv, WellFormed, KnowsCode
<1>2. /\ otp' = [otp EXCEPT ![o].consumed = TRUE]
      /\ accepted' = [accepted EXCEPT ![o] = @ + 1]
  BY <1>1 DEF MarkConsumed, SetConsumed
<1>3. otp[o] \in OtpRows
  BY <1>1, Rows DEF Inv
<1>4. /\ otp'[o] # NoOtp /\ otp'[o].consumed
      /\ \A x \in Otps \ {o} : otp'[x] = otp[x] /\ accepted'[x] = accepted[x]
  BY <1>2, <1>3, NotRows, ZenonT(40) DEF Inv, TypeOK, OtpRows
<1>5. UsedInv'
  BY <1>4 DEF UsedInv, Accepted
<1>6. proc'[s].at = "find" /\ \A q \in Sessions \ {s} : proc'[q] = proc[q]
  BY DEF MarkConsumed, Become, Inv, TypeOK, Locals
<1>7. \A x \in Otps : Holders(x)' \subseteq Holders(x)
  BY <1>6 DEF Holders
<1> QED
  BY <1>5, <1>7 DEF OneRound, NoNewHolder

\* No step begins another round.
LEMMA NextRound == Inv /\ UsedInv /\ [Next]_vars => OneRound
<1> SUFFICES ASSUME Inv, UsedInv, [Next]_vars
             PROVE  OneRound
  OBVIOUS
<1>1. otp' = otp => CodesStay
  BY DEF CodesStay
<1>2. ASSUME accepted' = accepted, proc' = proc, CodesStay
      PROVE  OneRound
  BY <1>2 DEF UsedInv, Accepted, CodesStay, OneRound, NoNewHolder, Holders
<1>3. ASSUME NEW a \in Addresses, NEW code \in Codes, InsertOtp(a, code)
      PROVE  CodesStay
  BY <1>3, InsertOtpKeeps DEF CodesStay
<1>4. CASE UNCHANGED vars
  BY <1>1, <1>2, <1>4 DEF vars
<1>5. ASSUME NEW a \in Addresses, NEW code \in Codes, SendOtp(a, code)
      PROVE  OneRound
  BY <1>2, <1>3, <1>5 DEF SendOtp
<1>6. ASSUME NEW s \in Sessions, NEW a, NEW code, FindValidOtp(s, "phone", a, code) \/ FindValidOtp(s, "email", a, code)
      PROVE  OneRound
  BY <1>6, FindKeepsRound
<1>7. ASSUME NEW s \in Sessions, MarkConsumed(s)
      PROVE  OneRound
  BY <1>7, ConsumeKeepsRound
<1>8. ASSUME NEW s \in Sessions, NEW l, Become(s, l), l.at # "consume", accepted' = accepted, CodesStay
      PROVE  OneRound
  BY <1>8, RoundKept
<1>9. Idle.at = "idle" /\ Idle.op = "idle" /\ \A s \in Sessions : proc[s] \in Locals
  BY DEF Idle, Inv, TypeOK
<1> DEFINE Goes(s) == \E l : Become(s, l) /\ l.at # "consume"
<1>10. ASSUME NEW s \in Sessions, NEW at \in {"create", "grant", "verify", "save"}, NEW u,
             Become(s, [proc[s] EXCEPT !.at = at]) \/ Become(s, [proc[s] EXCEPT !.at = at, !.user = u])
      PROVE  Goes(s)
  <2>1. proc[s] \in Locals
    BY <1>9
  <2>2. CASE Become(s, [proc[s] EXCEPT !.at = at])
    <3>1. PICK l : l = [proc[s] EXCEPT !.at = at]
      OBVIOUS
    <3>2. l.at = at
      BY <2>1, <3>1 DEF Locals
    <3> QED
      BY <2>2, <3>1, <3>2
  <2>3. CASE Become(s, [proc[s] EXCEPT !.at = at, !.user = u])
    <3>1. PICK l : l = [proc[s] EXCEPT !.at = at, !.user = u]
      OBVIOUS
    <3>2. l.at = at
      BY <2>1, <3>1 DEF Locals
    <3> QED
      BY <2>3, <3>1, <3>2
  <2> QED
    BY <1>10, <2>2, <2>3
<1>11. ASSUME NEW s \in Sessions, Become(s, Idle)
      PROVE  Goes(s)
  BY <1>9, <1>11
<1>12. ASSUME NEW s \in Sessions, FindUserByPhone(s) \/ FindUserByEmail(s)
       PROVE  OneRound
  <2>1. Goes(s)
    <3> HIDE DEF Goes
    <3> QED
      BY <1>10, <1>11, <1>12 DEF FindUserByPhone, FindUserByEmail
  <2>2. accepted' = accepted /\ CodesStay
    BY <1>1, <1>9, <1>12 DEF FindUserByPhone, FindUserByEmail, At
  <2> QED
    BY <1>8, <2>1, <2>2, SMTT(40)
<1>13. ASSUME NEW s \in Sessions, CreatePhoneUser(s) \/ CreateGoogleUser(s)
       PROVE  OneRound
  <2>1. Goes(s)
    <3> HIDE DEF Goes
    <3> QED
      BY <1>10, <1>11, <1>13 DEF CreatePhoneUser, CreateGoogleUser, InsertUser
  <2>2. accepted' = accepted /\ CodesStay
    BY <1>1, <1>9, <1>13 DEF CreatePhoneUser, CreateGoogleUser, At
  <2> QED
    BY <1>8, <2>1, <2>2
<1>14. ASSUME NEW s \in Sessions, MarkPhoneVerified(s) \/ MarkEmailVerified(s)
       PROVE  OneRound
  <2>1. PICK l : Become(s, l) /\ l.at # "consume"
    BY <1>9, <1>14 DEF MarkPhoneVerified, MarkEmailVerified, Locals
  <2>2. accepted' = accepted /\ CodesStay
    BY <1>1, <1>9, <1>14 DEF MarkPhoneVerified, MarkEmailVerified, At
  <2> QED
    BY <1>8, <2>1, <2>2
<1>15. ASSUME NEW s \in Sessions, GenerateTokens(s) \/ Fail(s)
       PROVE  OneRound
  <2>1. Become(s, Idle) /\ accepted' = accepted /\ CodesStay
    BY <1>1, <1>9, <1>15 DEF GenerateTokens, Fail
  <2> QED
    BY <1>8, <1>9, <2>1
<1>16. ASSUME NEW s \in Sessions, NEW a \in Emails, HandleGoogleLogin(s, a)
       PROVE  OneRound
  <2> DEFINE local == [Idle EXCEPT !.op = "google", !.address = a]
  <2>1. Goes(s)
    <3>1. [local EXCEPT !.at = "create"].at = "create" /\ \A u : [local EXCEPT !.at = "grant", !.user = u].at = "grant"
      BY DEF Idle
    <3>2. Become(s, [local EXCEPT !.at = "create"]) \/ \E u : Become(s, [local EXCEPT !.at = "grant", !.user = u])
      BY <1>16 DEF HandleGoogleLogin, Start
    <3> HIDE DEF local
    <3> QED
      BY <3>1, <3>2
  <2>2. accepted' = accepted /\ CodesStay
    BY <1>1, <1>16 DEF HandleGoogleLogin, Start
  <2> QED
    BY <1>8, <2>1, <2>2
<1>17. ASSUME NEW s \in Sessions, NEW u \in Users, NEW a \in Emails \cup {None}, Update(s, u, a)
       PROVE  OneRound
  <2> DEFINE k == [Idle EXCEPT !.op = "profile", !.at = IF a = None THEN "save" ELSE "check", !.address = a, !.user = u]
  <2>1. Goes(s)
    <3>1. k.at = IF a = None THEN "save" ELSE "check"
      BY DEF Idle
    <3>2. Become(s, k)
      BY <1>17 DEF Update, Start
    <3> HIDE DEF k
    <3> QED
      BY <3>1, <3>2
  <2>2. accepted' = accepted /\ CodesStay
    BY <1>1, <1>17 DEF Update, Start
  <2> QED
    BY <1>8, <2>1, <2>2
<1>18. ASSUME NEW s \in Sessions, CheckEmailInUse(s)
       PROVE  OneRound
  <2>1. PICK l : Become(s, l) /\ l.at # "consume"
    BY <1>9, <1>18 DEF CheckEmailInUse, Locals
  <2>2. accepted' = accepted /\ CodesStay
    BY <1>1, <1>9, <1>18 DEF CheckEmailInUse, At
  <2> QED
    BY <1>8, <2>1, <2>2
<1>19. ASSUME NEW s \in Sessions, UpdateById(s)
       PROVE  OneRound
  <2>1. accepted' = accepted /\ Become(s, Idle)
    BY <1>9, <1>19 DEF UpdateById, At
  <2>2. proc[s].address = None \/ proc[s].address \in Addresses
    BY <1>9 DEF Locals
  <2>3. CodesStay
    <3>1. otp' = otp \/ \E code \in Codes : InsertOtp(proc[s].address, code) /\ proc[s].address # None
      BY <1>19 DEF UpdateById
    <3> QED
      BY <1>1, <1>3, <2>2, <3>1
  <2> QED
    BY <1>8, <1>9, <2>1, <2>3
<1>20. CASE Tick
  BY <1>1, <1>2, <1>20 DEF Tick
<1> QED
  BY <1>4, <1>5, <1>6, <1>7, <1>12, <1>13, <1>14, <1>15, <1>16, <1>17, <1>18, <1>19, <1>20 DEF Next

\* A code is accepted only by verifications that found it before the first of them consumed it: no
\* code that is sent again, no handler that fails and no step of another verification brings it back.
THEOREM OneRoundPerCode == Spec => AcceptedInOneRound
<1>1. Init => UsedInv
  BY DEF Init, UsedInv, Accepted
<1>2. Inv /\ UsedInv /\ [Next]_vars => UsedInv'
  BY NextRound DEF OneRound
<1>3. Inv /\ UsedInv /\ [Next]_vars => [\A o \in Otps : accepted[o] > 0 => Holders(o)' \subseteq Holders(o)]_vars
  BY NextRound DEF OneRound, NoNewHolder
<1> QED
  BY <1>1, <1>2, <1>3, Invariance, PTL DEF Spec, AcceptedInOneRound
=============================================================================
