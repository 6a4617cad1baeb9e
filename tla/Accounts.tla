--------------------------------- MODULE Accounts ---------------------------------
(***************************************************************************)
(* Accounts and the one-time codes that prove their phones and addresses:  *)
(* AuthService on OtpService and UsersRepository, and the change of an     *)
(* address in UsersService.update.  The tokens a login ends with are those *)
(* of RefreshTokens; here a handler is at "grant" when it issues them.     *)
(*                                                                         *)
(* A read, and a statement with its COMMIT, is a step.  Transactions of    *)
(* several statements are one step: what they insert is invisible before   *)
(* COMMIT, and their UPDATE of a user waits for no lock another step       *)
(* keeps.  last_login_at is left out.                                      *)
(***************************************************************************)
EXTENDS Integers, FiniteSets

CONSTANTS
    Sessions,          \* handlers that can be in progress at a time
    Phones, Emails, Codes,
    Blank,             \* the phone '' that a Google account is created with
    Ttl,               \* OTP_TTL_MINUTES
    None,
    \* Bounds of the model
    MaxTime, MaxUsers, MaxOtps, MaxInFlight

Users == 1..MaxUsers
Otps  == 1..MaxOtps
Addresses == Phones \cup Emails

ASSUME BoundsAssumption == /\ Ttl \in Nat \ {0} /\ MaxTime \in Nat /\ MaxUsers \in Nat /\ MaxOtps \in Nat
                           /\ MaxInFlight \in Nat
ASSUME AddressesAssumption == Phones \cap Emails = {} /\ None \notin Addresses \cup Codes \cup {Blank}
                              /\ Blank \notin Addresses

VARIABLES
    now,
    user,      \* users
    otp,       \* auth_otps
    accepted,  \* history: how often verifyOtp or verifyEmailOtp returned true for each code
    vouched,   \* history: the addresses Google has signed somebody in with
    mistaken,  \* history: the accounts and addresses that a code for another address verified
    proc       \* the local state of each handler

vars == <<now, user, otp, accepted, vouched, mistaken, proc>>

UserRows == [phone : Phones \cup {Blank}, email : Emails \cup {None}, phoneVerified : BOOLEAN, emailVerified : BOOLEAN]
NoUser == [phone |-> None]
OtpRows == [address : Addresses, code : Codes, expires : 0..(MaxTime + Ttl), consumed : BOOLEAN]
NoOtp == [address |-> None]

Locals == [op : {"idle", "phone", "email", "google", "profile"},
           at : {"idle", "consume", "find", "create", "verify", "grant", "check", "save"},
           address : Addresses \cup {None}, otp : Otps \cup {0}, user : Users \cup {0}]
Idle == [op |-> "idle", at |-> "idle", address |-> None, otp |-> 0, user |-> 0]

Init ==
    /\ now = 0
    /\ user = [u \in Users |-> NoUser]
    /\ otp = [o \in Otps |-> NoOtp]
    /\ accepted = [o \in Otps |-> 0]
    /\ vouched = {}
    /\ mistaken = {}
    /\ proc = [s \in Sessions |-> Idle]

-----------------------------------------------------------------------------
(* Rows *)

Registered == {u \in Users : user[u] # NoUser}
FindByPhone(a) == {u \in Registered : user[u].phone = a}
FindByEmail(a) == {u \in Registered : user[u].email = a}

\* The unique constraints on phone and email (NULL is equal to nothing).
NoConstraint(u, phone, email) == TRUE                      \* mutant: a schema without them
Unique(u, phone, email) ==
    \A o \in Registered \ {u} : user[o].phone # phone /\ (email # None => user[o].email # email)

FirstFree(x, free) == x \in free /\ \A y \in free : x <= y

ExpiryInSeconds == now + 60 * Ttl                          \* mutant: minutes taken for hours
Expiry == now + Ttl
NewOtp(a, code) == [address |-> a, code |-> code, expires |-> Expiry, consumed |-> FALSE]
InsertOtp(a, code) == \E o \in Otps :
    /\ FirstFree(o, {x \in Otps : otp[x] = NoOtp})
    /\ otp' = [otp EXCEPT ![o] = NewOtp(a, code)]

ValidForAnyone(o, a, code) ==                              \* mutant: looks the code up without the address
    otp[o] # NoOtp /\ otp[o].code = code /\ ~otp[o].consumed /\ otp[o].expires > now
IsValid(o, a, code) ==
    otp[o] # NoOtp /\ otp[o].address = a /\ otp[o].code = code /\ ~otp[o].consumed /\ otp[o].expires > now

-----------------------------------------------------------------------------
(* Handlers *)

Become(s, l) == proc' = [proc EXCEPT ![s] = l]
MayStart == Cardinality({s \in Sessions : proc[s] # Idle}) < MaxInFlight   \* the bound of the model
Start(s, l) == MayStart /\ proc[s] = Idle /\ Become(s, l)
At(s, op, at) == proc[s].op = op /\ proc[s].at = at

\* sendPhoneOtp and sendEmailOtp: the code is any number, and replaces none that was sent before.
SendOtp(a, code) ==
    /\ MayStart
    /\ InsertOtp(a, code)
    /\ UNCHANGED <<now, user, accepted, vouched, mistaken, proc>>

\* verifyPhoneOtp and verifyEmailOtp start alike: findFirst of the valid codes, and markConsumed.
FindValidOtp(s, op, a, code) == \E o \in Otps :
    /\ IsValid(o, a, code)
    /\ Start(s, [Idle EXCEPT !.op = op, !.at = "consume", !.address = a, !.otp = o])
    /\ UNCHANGED <<now, user, otp, accepted, vouched, mistaken>>

ConsumeLater(o) == UNCHANGED otp                           \* mutant: the code is not consumed
SetConsumed(o) == otp' = [otp EXCEPT ![o].consumed = TRUE]
MarkConsumed(s) ==
    /\ proc[s].at = "consume"
    /\ SetConsumed(proc[s].otp)
    /\ accepted' = [accepted EXCEPT ![proc[s].otp] = @ + 1]
    /\ Become(s, [proc[s] EXCEPT !.at = "find"])
    /\ UNCHANGED <<now, user, vouched, mistaken>>

\* Whoever has the phone is logged in, or else an account is created for it.
FindUserByPhone(s) ==
    LET found == FindByPhone(proc[s].address) IN
    /\ At(s, "phone", "find")
    /\ \/ found = {} /\ Become(s, [proc[s] EXCEPT !.at = "create"])
       \/ \E u \in found : Become(s, [proc[s] EXCEPT !.at = "verify", !.user = u])
    /\ UNCHANGED <<now, user, otp, accepted, vouched, mistaken>>

\* The INSERT of a transaction that creates a user; it throws when it breaks a constraint.
InsertUser(s, row) ==
    \/ \E u \in Users :
          /\ FirstFree(u, Users \ Registered)
          /\ Unique(u, row.phone, row.email)
          /\ user' = [user EXCEPT ![u] = row]
          /\ Become(s, [proc[s] EXCEPT !.at = "grant", !.user = u])
    \/ /\ ~Unique(0, row.phone, row.email) \/ Registered = Users
       /\ Become(s, Idle)
       /\ UNCHANGED user

NewPhoneUser(a) == [phone |-> a, email |-> None, phoneVerified |-> TRUE, emailVerified |-> FALSE]
CreatePhoneUser(s) ==
    /\ At(s, "phone", "create")
    /\ InsertUser(s, NewPhoneUser(proc[s].address))
    /\ UNCHANGED <<now, otp, accepted, vouched, mistaken>>

\* markPhoneVerified unless the row was verified when it was read; nothing takes that back.
MarkPhoneVerified(s) ==
    /\ At(s, "phone", "verify")
    /\ user' = [user EXCEPT ![proc[s].user].phoneVerified = TRUE]
    /\ Become(s, [proc[s] EXCEPT !.at = "grant"])
    /\ UNCHANGED <<now, otp, accepted, vouched, mistaken>>

GenerateTokens(s) ==
    /\ proc[s].at = "grant"
    /\ Become(s, Idle)
    /\ UNCHANGED <<now, user, otp, accepted, vouched, mistaken>>

\* A proven address is marked on whichever account has it when the handler looks ...
FindUserByEmail(s) ==
    LET found == FindByEmail(proc[s].address) IN
    /\ At(s, "email", "find")
    /\ \/ found = {} /\ Become(s, Idle)
       \/ \E u \in found : Become(s, [proc[s] EXCEPT !.at = "verify", !.user = u])
    /\ UNCHANGED <<now, user, otp, accepted, vouched, mistaken>>

\* ... by the id of that account.
MarkEmailVerified(s) ==
    LET email == user[proc[s].user].email IN
    /\ At(s, "email", "verify")
    /\ user' = [user EXCEPT ![proc[s].user].emailVerified = TRUE]
    /\ mistaken' = IF email = proc[s].address THEN mistaken ELSE mistaken \cup {<<proc[s].user, email>>}
    /\ Become(s, Idle)
    /\ UNCHANGED <<now, otp, accepted, vouched>>

\* handleGoogleLogin, up to the transaction that creates the account.
HandleGoogleLogin(s, a) ==
    LET found == FindByEmail(a)
        local == [Idle EXCEPT !.op = "google", !.address = a] IN
    /\ \/ found = {} /\ Start(s, [local EXCEPT !.at = "create"])
       \/ \E u \in found : Start(s, [local EXCEPT !.at = "grant", !.user = u])
    /\ vouched' = vouched \cup {a}
    /\ UNCHANGED <<now, user, otp, accepted, mistaken>>

NewGoogleUser(a) == [phone |-> Blank, email |-> a, phoneVerified |-> FALSE, emailVerified |-> TRUE]
CreateGoogleUser(s) ==
    /\ At(s, "google", "create")
    /\ InsertUser(s, NewGoogleUser(proc[s].address))
    /\ UNCHANGED <<now, otp, accepted, vouched, mistaken>>

\* UsersService.update with another address, or none.
Update(s, u, a) ==
    /\ u \in Registered /\ user[u].email # a
    /\ Start(s, [Idle EXCEPT !.op = "profile", !.at = IF a = None THEN "save" ELSE "check", !.address = a, !.user = u])
    /\ UNCHANGED <<now, user, otp, accepted, vouched, mistaken>>

CheckEmailInUse(s) ==
    /\ At(s, "profile", "check")
    /\ Become(s, IF FindByEmail(proc[s].address) \ {proc[s].user} = {} THEN [proc[s] EXCEPT !.at = "save"] ELSE Idle)
    /\ UNCHANGED <<now, user, otp, accepted, vouched, mistaken>>

\* Another address has to be proven again; the code for it is sent in the same transaction.
StillVerified(row, a) == [row EXCEPT !.email = a]          \* mutant: keeps the verification
WithEmail(row, a) == [row EXCEPT !.email = a, !.emailVerified = @ /\ a = None]
UpdateById(s) ==
    LET u == proc[s].user  a == proc[s].address IN
    /\ At(s, "profile", "save")
    /\ \/ /\ Unique(u, user[u].phone, a)
          /\ user' = [user EXCEPT ![u] = WithEmail(@, a)]
          /\ IF a = None THEN UNCHANGED otp ELSE \E code \in Codes : InsertOtp(a, code)
       \/ ~Unique(u, user[u].phone, a) /\ UNCHANGED <<user, otp>>
    /\ Become(s, Idle)
    /\ UNCHANGED <<now, accepted, vouched, mistaken>>

\* Any statement can throw, and the process can die.
Fail(s) == proc[s] # Idle /\ Become(s, Idle) /\ UNCHANGED <<now, user, otp, accepted, vouched, mistaken>>

Tick == now < MaxTime /\ now' = now + 1 /\ UNCHANGED <<user, otp, accepted, vouched, mistaken, proc>>

Next ==
    \/ \E a \in Addresses, code \in Codes : SendOtp(a, code)
    \/ \E s \in Sessions :
          \/ \E a \in Phones, code \in Codes : FindValidOtp(s, "phone", a, code)
          \/ \E a \in Emails, code \in Codes : FindValidOtp(s, "email", a, code)
          \/ MarkConsumed(s)
          \/ FindUserByPhone(s) \/ CreatePhoneUser(s) \/ MarkPhoneVerified(s) \/ GenerateTokens(s)
          \/ FindUserByEmail(s) \/ MarkEmailVerified(s)
          \/ (\E a \in Emails : HandleGoogleLogin(s, a)) \/ CreateGoogleUser(s)
          \/ (\E u \in Users, a \in Emails \cup {None} : Update(s, u, a)) \/ CheckEmailInUse(s) \/ UpdateById(s)
          \/ Fail(s)
    \/ Tick

Spec == Init /\ [][Next]_vars

-----------------------------------------------------------------------------
(* Properties that hold under every interleaving *)

\* Rows and handlers have their types.
TypeOK ==
    /\ now \in 0..MaxTime
    /\ user \in [Users -> UserRows \cup {NoUser}]
    /\ otp \in [Otps -> OtpRows \cup {NoOtp}]
    /\ accepted \in [Otps -> Nat]
    /\ vouched \subseteq Emails
    /\ mistaken \subseteq Users \X (Emails \cup {None})
    /\ proc \in [Sessions -> Locals]

\* An account whose phone is verified belongs to somebody who used a code sent to that phone,
\* however first logins with it raced.
PhoneWasProven == \A u \in Registered : user[u].phoneVerified =>
    \E o \in Otps : otp[o] # NoOtp /\ otp[o].address = user[u].phone /\ otp[o].consumed

\* Tokens are issued for the account of the phone that was proven, and no other login has it:
\* neither a change of profile nor another login that created the account can come between.
TokensForProvenPhone == \A s \in Sessions : At(s, "phone", "grant") =>
    /\ FindByPhone(proc[s].address) = {proc[s].user}
    /\ user[proc[s].user].phoneVerified

\* A code is accepted only by verifications that found it before the first of them consumed it:
\* once it is, nobody comes to hold it, neither by sending it again nor by the failure of what
\* follows a verification.
Holders(o) == {s \in Sessions : proc[s].at = "consume" /\ proc[s].otp = o}
AcceptedInOneRound == [][\A o \in Otps : accepted[o] > 0 => Holders(o)' \subseteq Holders(o)]_vars

\* An address is verified only if a code sent to it was used, or Google vouched for it, while it
\* passes from one account to another and accounts change theirs; but for the account that
\* changed its address while a code for the old one was being verified.
EmailWasProven == \A u \in Registered : user[u].emailVerified /\ user[u].email # None =>
    \/ user[u].email \in vouched
    \/ \E o \in Otps : otp[o] # NoOtp /\ otp[o].address = user[u].email /\ otp[o].consumed
    \/ <<u, user[u].email>> \in mistaken

-----------------------------------------------------------------------------
(* Properties that interleavings break *)

\* "Marks OTP as consumed on success": a code is accepted once.
AcceptedOnce == \A o \in Otps : accepted[o] <= 1

\* "Verify email OTP and mark the email as verified for the user": it is that address, and no
\* other, that verifyEmailOtp marks.
MarksProvenEmail == mistaken = {}

\* "Finds or creates a user from Google profile data": a Google account that has no user yet gets
\* one, unless another login of it has just created it.
GoogleCanSignUp == \A s \in Sessions : At(s, "google", "create") =>
    \/ FindByEmail(proc[s].address) # {}
    \/ Unique(0, Blank, proc[s].address)
=============================================================================
