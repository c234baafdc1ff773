------------------------------- MODULE Accounts -------------------------------
(***************************************************************************)
(* One customer account: its refresh sessions, its password and e-mail     *)
(* address with their tokens, its address book and its deletion.  Requests *)
(* look something up first and then work under the lock of the User row;   *)
(* what happens under that lock is one action, except where a second row   *)
(* lock or an unlocked read comes in between: a password reset holds its   *)
(* token's row before it needs the User row, a deletion takes them the     *)
(* other way round.  A token that has expired is one nobody presents.      *)
(***************************************************************************)
EXTENDS Integers, Sequences, FiniteSetsExt

CONSTANTS Requests,     \* handlers of the account's HTTP requests
          SessionIds,   \* integers
          Credentials,  \* refresh tokens, numbered in the order they are issued
          Tokens,       \* password reset tokens, numbered likewise
          VerificationTokens,  \* likewise; signup sends 1
          Emails,       \* addresses the customer may give
          SignupEmail,  \* the one the account was made with
          AddressIds,   \* integers: the lowest surviving id is promoted
          None

ASSUME AccountsAssumption ==
  /\ SessionIds \union Credentials \union Tokens \union VerificationTokens \union AddressIds \subseteq Nat
  /\ IsFiniteSet(AddressIds)
  /\ SignupEmail \in Emails /\ 1 \in VerificationTokens
  /\ None \notin Emails
  /\ None \notin Requests \union SessionIds \union Credentials \union Tokens \union VerificationTokens

VARIABLES request,           \* what each handler has found so far
          refreshTokenHash,  \* RefreshSession: its current credential, None without a row
          revoked,           \* sessions with revokedAt set
          expired,           \* sessions past expiresAt
          issued,            \* of each credential: its session, and the one it replaced
          deleted,           \* User.deletedAt is set
          passwordHash,      \* "usable" or "unusable"
          resetToken,        \* the PasswordResetToken row
          mailed,            \* reset tokens sent to the customer
          email,             \* User.email, None for the tombstone of a deleted account
          emailVerified,
          verificationToken, \* the EmailVerificationToken row
          issuedFor,         \* the address each verification token was issued for
          userLock,          \* handler holding the User row across steps
          tokenLock,         \* handler holding the reset token's row
          addresses, isDefault, isDefaultBilling   \* Address rows and their two roles

sessionVars == <<refreshTokenHash, revoked, expired, issued>>
passwordVars == <<passwordHash, resetToken, mailed>>
emailVars == <<email, emailVerified, verificationToken, issuedFor>>
lockVars == <<userLock, tokenLock>>
addressVars == <<addresses, isDefault, isDefaultBilling>>
accountVars == <<request, sessionVars, deleted, passwordVars, emailVars, lockVars, addressVars>>

Idle == [step |-> "idle", session |-> None, presented |-> None]
NotIssued == [session |-> None, replaced |-> None]
Steps == {"idle", "loggingIn", "rotating", "loggingOut", "authenticated", "erasing",
          "forgetting", "resetting", "consumed", "setting", "resending", "verifying"}

RequestTypes ==
  [step : {"rotating", "loggingOut"}, session : SessionIds, presented : Credentials]
    \union [step : Steps \ {"rotating", "loggingOut"}, session : {None},
            presented : Tokens \union VerificationTokens \union {None}]
Issues == [session : SessionIds \union {None}, replaced : Credentials \union {None}]

RowsTypeOK ==
  /\ refreshTokenHash \in [SessionIds -> Credentials \union {None}]
  /\ revoked \subseteq SessionIds /\ expired \subseteq SessionIds
  /\ issued \in [Credentials -> Issues]
  /\ deleted \in BOOLEAN
  /\ passwordHash \in {"usable", "unusable"}
  /\ resetToken \in Tokens \union {None}
  /\ mailed \subseteq Tokens
  /\ email \in Emails \union {None}
  /\ emailVerified \in BOOLEAN
  /\ verificationToken \in VerificationTokens \union {None}
  /\ issuedFor \in Seq(Emails \union {None})
  /\ userLock \in Requests \union {None} /\ tokenLock \in Requests \union {None}
  /\ addresses \subseteq AddressIds
  /\ isDefault \subseteq AddressIds /\ isDefaultBilling \subseteq AddressIds

AccountsTypeOK == request \in [Requests -> RequestTypes] /\ RowsTypeOK

AccountsInit ==
  /\ request = [r \in Requests |-> Idle]
  /\ refreshTokenHash = [s \in SessionIds |-> None]
  /\ revoked = {} /\ expired = {}
  /\ issued = [c \in Credentials |-> NotIssued]
  /\ deleted = FALSE
  /\ passwordHash = "usable" /\ resetToken = None /\ mailed = {}
  /\ email = SignupEmail /\ emailVerified = FALSE
  /\ verificationToken = 1 /\ issuedFor = <<SignupEmail>>
  /\ userLock = None /\ tokenLock = None
  /\ addresses = {} /\ isDefault = {} /\ isDefaultBilling = {}

-----------------------------------------------------------------------------

Proceed(r, step, session, presented) ==
  request' = [request EXCEPT ![r] = [step |-> step, session |-> session, presented |-> presented]]

Finish(r) == request' = [request EXCEPT ![r] = Idle]

At(r, step) == request[r].step = step

\* authMiddleware: the account is looked up once, before the handler runs.
Authenticate(r) ==
  /\ At(r, "idle") /\ ~deleted
  /\ Proceed(r, "authenticated", None, None)
  /\ UNCHANGED <<sessionVars, deleted, passwordVars, emailVars, lockVars, addressVars>>

-----------------------------------------------------------------------------
(* Sessions.                                                               *)

\* The password is compared with the row read here; bcrypt takes its time.
BeginLogin(r) ==
  /\ At(r, "idle") /\ ~deleted /\ passwordHash = "usable"
  /\ Proceed(r, "loggingIn", None, None)
  /\ UNCHANGED <<sessionVars, deleted, passwordVars, emailVars, lockVars, addressVars>>

\* The next new credential.
Fresh(c) == \A d \in Credentials : issued[d] = NotIssued <=> d >= c

\* The row refers to the User row, so the insert waits for who holds that.
createRefreshSession(r, s, c) ==
  /\ At(r, "loggingIn") /\ userLock = None
  /\ \A s2 \in SessionIds : refreshTokenHash[s2] = None <=> s2 >= s
  /\ Fresh(c)
  /\ refreshTokenHash' = [refreshTokenHash EXCEPT ![s] = c]
  /\ issued' = [issued EXCEPT ![c] = [session |-> s, replaced |-> None]]
  /\ Finish(r)
  /\ UNCHANGED <<revoked, expired, deleted, passwordVars, emailVars, lockVars, addressVars>>

\* A session is renewed without its expiry being moved.
ExpireSession(s) ==
  /\ refreshTokenHash[s] # None
  /\ expired' = expired \union {s}
  /\ UNCHANGED <<request, refreshTokenHash, revoked, issued, deleted, passwordVars, emailVars, lockVars, addressVars>>

\* The lookup by hash that rotation and logout begin with.
Discover(r, s, c, step) ==
  /\ At(r, "idle")
  /\ issued[c] # NotIssued /\ refreshTokenHash[s] = c
  /\ Proceed(r, step, s, c)
  /\ UNCHANGED <<sessionVars, deleted, passwordVars, emailVars, lockVars, addressVars>>

DiscoverForRotation(r, s, c) == s \notin revoked \union expired /\ Discover(r, s, c, "rotating")
DiscoverForLogout(r, s, c) == Discover(r, s, c, "loggingOut")

\* Slip: the session is not read again under the lock.
DiscoveredIsGood(r) == ~deleted

StillCurrent(r) ==
  LET s == request[r].session IN
  /\ ~deleted
  /\ refreshTokenHash[s] = request[r].presented
  /\ s \notin revoked \union expired

rotateRefreshSession(r, c) ==
  LET s == request[r].session IN
  /\ At(r, "rotating") /\ userLock = None
  /\ IF StillCurrent(r)
     THEN /\ Fresh(c)
          /\ refreshTokenHash' = [refreshTokenHash EXCEPT ![s] = c]
          /\ issued' = [issued EXCEPT ![c] = [session |-> s, replaced |-> request[r].presented]]
     ELSE UNCHANGED <<refreshTokenHash, issued>>
  /\ Finish(r)
  /\ UNCHANGED <<revoked, expired, deleted, passwordVars, emailVars, lockVars, addressVars>>

\* Slip: the row is revoked only while it still holds the presented credential.
RevokePresented(r) ==
  LET s == request[r].session IN
  /\ At(r, "loggingOut") /\ userLock = None
  /\ revoked' = IF refreshTokenHash[s] = request[r].presented THEN revoked \union {s} ELSE revoked
  /\ Finish(r)
  /\ UNCHANGED <<refreshTokenHash, expired, issued, deleted, passwordVars, emailVars, lockVars, addressVars>>

revokeRefreshSession(r) ==
  /\ At(r, "loggingOut") /\ userLock = None
  /\ revoked' = revoked \union {request[r].session}
  /\ Finish(r)
  /\ UNCHANGED <<refreshTokenHash, expired, issued, deleted, passwordVars, emailVars, lockVars, addressVars>>

SessionNext(r) ==
  \/ BeginLogin(r)
  \/ \E s \in SessionIds, c \in Credentials :
       \/ createRefreshSession(r, s, c)
       \/ DiscoverForRotation(r, s, c)
       \/ DiscoverForLogout(r, s, c)
  \/ \E c \in Credentials : rotateRefreshSession(r, c)
  \/ revokeRefreshSession(r)

-----------------------------------------------------------------------------
(* Password reset.                                                         *)

BeginForgotPassword(r) ==
  /\ At(r, "idle") /\ ~deleted
  /\ Proceed(r, "forgetting", None, None)
  /\ UNCHANGED <<sessionVars, deleted, passwordVars, emailVars, lockVars, addressVars>>

\* The upsert waits for a reset that holds the row and, when it inserts one, for
\* who holds the User row.  It does not look at deletedAt.
createOrReplacePasswordResetToken(r, t) ==
  /\ At(r, "forgetting") /\ tokenLock = None
  /\ resetToken = None => userLock = None
  /\ \A u \in Tokens : u \in mailed <=> u < t
  /\ resetToken' = t
  /\ mailed' = mailed \union {t}
  /\ Finish(r)
  /\ UNCHANGED <<sessionVars, deleted, emailVars, passwordHash, lockVars, addressVars>>

FindResetToken(r, t) ==
  /\ At(r, "idle")
  /\ t \in mailed /\ resetToken = t
  /\ Proceed(r, "resetting", None, t)
  /\ UNCHANGED <<sessionVars, deleted, passwordVars, emailVars, lockVars, addressVars>>

\* Slip: the token is consumed in a transaction of its own.
ConsumeAndCommit(r) ==
  /\ At(r, "resetting") /\ tokenLock = None
  /\ IF resetToken = request[r].presented
     THEN Proceed(r, "consumed", None, request[r].presented)
     ELSE Finish(r)
  /\ resetToken' = IF resetToken = request[r].presented THEN None ELSE resetToken
  /\ UNCHANGED <<sessionVars, deleted, emailVars, passwordHash, mailed, lockVars, addressVars>>

\* DELETE takes the row's lock; others still see the row until the commit.
ConsumeResetToken(r) ==
  /\ At(r, "resetting") /\ tokenLock = None
  /\ IF resetToken = request[r].presented
     THEN tokenLock' = r /\ Proceed(r, "consumed", None, request[r].presented)
     ELSE Finish(r) /\ UNCHANGED tokenLock
  /\ UNCHANGED <<sessionVars, deleted, emailVars, passwordVars, userLock, addressVars>>

Unlocked(lock, r) == IF lock = r THEN None ELSE lock

\* Rolling back gives the row back unconsumed.
RollBack(r) ==
  /\ Finish(r)
  /\ tokenLock' = Unlocked(tokenLock, r)
  /\ userLock' = Unlocked(userLock, r)
  /\ UNCHANGED <<sessionVars, deleted, emailVars, passwordVars, addressVars>>

\* An unlocked read of the user.
ReadUserForReset(r) ==
  /\ At(r, "consumed")
  /\ IF deleted
     THEN RollBack(r)
     ELSE /\ Proceed(r, "setting", None, request[r].presented)
          /\ UNCHANGED <<sessionVars, deleted, passwordVars, emailVars, lockVars, addressVars>>

SetPassword(r) ==
  /\ At(r, "setting") /\ userLock = None
  /\ passwordHash' = "usable"
  /\ resetToken' = IF tokenLock = r THEN None ELSE resetToken
  /\ tokenLock' = Unlocked(tokenLock, r)
  /\ Finish(r)
  /\ UNCHANGED <<sessionVars, deleted, emailVars, mailed, userLock, addressVars>>

ResetNext(r) ==
  \/ BeginForgotPassword(r)
  \/ \E t \in Tokens : createOrReplacePasswordResetToken(r, t) \/ FindResetToken(r, t)
  \/ ConsumeResetToken(r)
  \/ ReadUserForReset(r)
  \/ SetPassword(r)

-----------------------------------------------------------------------------
(* The e-mail address and its verification.                                *)

\* The one row of the user gets a new token, issued for the address it now has.
ReplaceVerificationToken(address) ==
  /\ Len(issuedFor) + 1 \in VerificationTokens
  /\ verificationToken' = Len(issuedFor) + 1
  /\ issuedFor' = Append(issuedFor, address)

\* The handler looks the account up again.
BeginResend(r) ==
  /\ At(r, "authenticated") /\ ~deleted /\ ~emailVerified
  /\ Proceed(r, "resending", None, None)
  /\ UNCHANGED <<sessionVars, deleted, passwordVars, emailVars, lockVars, addressVars>>

\* emailVerified is read without a lock before the upsert and may have changed;
\* an insert, not an update, waits for who holds the User row.
createOrReplaceEmailVerificationToken(r) ==
  /\ At(r, "resending")
  /\ verificationToken = None => userLock = None
  /\ ReplaceVerificationToken(email)
  /\ Finish(r)
  /\ UNCHANGED <<sessionVars, deleted, passwordVars, email, emailVerified, lockVars, addressVars>>

\* It does not look at deletedAt.
changeUnverifiedUserEmail(r, address) ==
  /\ At(r, "authenticated") /\ userLock = None
  /\ ~emailVerified /\ email # address
  /\ email' = address
  /\ ReplaceVerificationToken(address)
  /\ Finish(r)
  /\ UNCHANGED <<sessionVars, deleted, passwordVars, emailVerified, lockVars, addressVars>>

FindVerificationToken(r, t) ==
  /\ At(r, "idle") /\ verificationToken = t
  /\ Proceed(r, "verifying", None, t)
  /\ UNCHANGED <<sessionVars, deleted, passwordVars, emailVars, lockVars, addressVars>>

\* Slip: the token is not read again under the lock.
FoundIsGood(r) == ~deleted /\ ~emailVerified

StillVerifies(r) ==
  /\ ~deleted /\ ~emailVerified
  /\ verificationToken = request[r].presented

verifyEmailVerificationToken(r) ==
  /\ At(r, "verifying") /\ userLock = None
  /\ IF StillVerifies(r)
     THEN emailVerified' = TRUE /\ verificationToken' = None
     ELSE UNCHANGED <<emailVerified, verificationToken>>
  /\ Finish(r)
  /\ UNCHANGED <<sessionVars, deleted, passwordVars, email, issuedFor, lockVars, addressVars>>

EmailNext(r) ==
  \/ BeginResend(r)
  \/ createOrReplaceEmailVerificationToken(r)
  \/ \E address \in Emails : changeUnverifiedUserEmail(r, address)
  \/ \E t \in VerificationTokens : FindVerificationToken(r, t)
  \/ verifyEmailVerificationToken(r)

-----------------------------------------------------------------------------
(* Deletion.                                                               *)

LockUserForDeletion(r) ==
  /\ At(r, "authenticated") /\ userLock = None
  /\ IF deleted
     THEN Finish(r) /\ UNCHANGED userLock
     ELSE userLock' = r /\ Proceed(r, "erasing", None, None)
  /\ UNCHANGED <<sessionVars, deleted, emailVars, passwordVars, tokenLock, addressVars>>

\* Sessions stay: whoever renews one looks at deletedAt.
deleteCustomerAccount(r) ==
  /\ At(r, "erasing") /\ tokenLock = None
  /\ addresses' = {} /\ isDefault' = {} /\ isDefaultBilling' = {}
  /\ resetToken' = None
  /\ passwordHash' = "unusable"
  /\ deleted' = TRUE
  /\ userLock' = None
  /\ Finish(r)
  /\ email' = None /\ verificationToken' = None
  /\ UNCHANGED <<sessionVars, mailed, emailVerified, issuedFor, tokenLock>>

\* The reset holds the token and wants the user, the deletion the reverse: the
\* database ends the wait by aborting one of them.
AbortDeadlock(r) ==
  /\ userLock # None /\ tokenLock # None
  /\ At(tokenLock, "setting") /\ r \in {userLock, tokenLock}
  /\ RollBack(r)

-----------------------------------------------------------------------------
(* The address book.                                                       *)

\* What an address transaction leaves: rows, and the holders of the two roles.
StoreAddresses(r, rows, shipping, billing) ==
  /\ At(r, "authenticated") /\ userLock = None
  /\ addresses' = rows
  /\ isDefault' = shipping
  /\ isDefaultBilling' = billing
  /\ Finish(r)
  /\ UNCHANGED <<sessionVars, deleted, emailVars, passwordVars, lockVars>>

\* The first address gets both roles; a role that is asked for is taken over.
createAddress(r, a, shipping, billing) ==
  /\ \A b \in addresses : b < a
  /\ StoreAddresses(r, addresses \union {a},
       IF addresses = {} \/ shipping THEN {a} ELSE isDefault,
       IF addresses = {} \/ billing THEN {a} ELSE isDefaultBilling)

\* A request to give up a role is refused, and one to do without it changes nothing.
updateAddress(r, a, shipping, billing) ==
  /\ a \in addresses
  /\ StoreAddresses(r, addresses,
       IF shipping THEN {a} ELSE isDefault, IF billing THEN {a} ELSE isDefaultBilling)

\* Slip: the roles of a deleted address go with it.
DropRole(role, a) == role \ {a}

\* A deleted address hands its roles to the lowest of those that remain.
HandOver(role, a) ==
  IF a \notin role THEN role
  ELSE IF addresses = {a} THEN {} ELSE (role \ {a}) \union {Min(addresses \ {a})}

deleteAddress(r, a) ==
  /\ a \in addresses
  /\ StoreAddresses(r, addresses \ {a}, HandOver(isDefault, a), HandOver(isDefaultBilling, a))

AddressNext(r) ==
  \E a \in AddressIds :
    \/ \E shipping, billing \in BOOLEAN :
         createAddress(r, a, shipping, billing) \/ updateAddress(r, a, shipping, billing)
    \/ deleteAddress(r, a)

AccountsNext ==
  \/ \E r \in Requests :
       \/ Authenticate(r) \/ SessionNext(r) \/ ResetNext(r) \/ EmailNext(r) \/ AddressNext(r)
       \/ LockUserForDeletion(r) \/ deleteCustomerAccount(r) \/ AbortDeadlock(r)
  \/ \E s \in SessionIds : ExpireSession(s)

AccountsSpec == AccountsInit /\ [][AccountsNext]_accountVars

-----------------------------------------------------------------------------
(* Properties.                                                             *)

\* Two requests that present one credential at once get one successor between
\* them: the credentials of a session form a chain, and only its last one works.
CredentialRotatesOnce ==
  \A c, d \in Credentials :
    /\ issued[c].replaced # None /\ issued[c].replaced = issued[d].replaced => c = d
    /\ issued[d].replaced = c /\ c # None => \A s \in SessionIds : refreshTokenHash[s] # c

\* A logout that found its session ends it, even when a rotation has replaced the
\* credential in the meantime; and an ended session never gets another credential.
SessionsStayEnded ==
  /\ \A r \in Requests : At(r, "loggingOut") /\ request'[r] # request[r]
       => request[r].session \in revoked'
  /\ \A s \in revoked : s \in revoked' /\ refreshTokenHash'[s] = refreshTokenHash[s]
LogoutEndsSession == [][SessionsStayEnded]_accountVars

\* No request that was under way when the account was deleted brings it back: not
\* a reset that had found its token, nor a rotation that had found its session.
StaysOut ==
  /\ deleted => deleted'
  /\ deleted' => passwordHash' = "unusable"
  /\ deleted => \A s \in SessionIds :
       refreshTokenHash[s] # None => refreshTokenHash'[s] = refreshTokenHash[s]
DeletedStaysOut == [][StaysOut]_accountVars

\* An address is verified only by a token issued for it, even when a verification
\* had found its token before the address was changed; and a verified address is
\* settled: neither a change nor a resend under way at the time touches it again.
VerifiesCurrent ==
  /\ ~emailVerified /\ emailVerified' =>
       /\ email' = email
       /\ \E r \in Requests : At(r, "verifying") /\ issuedFor[request[r].presented] = email
  /\ emailVerified => emailVerified' /\ (email' = email \/ (~deleted /\ deleted'))
VerifiedIsCurrent == [][VerifiesCurrent]_accountVars

\* As long as there are addresses, each role belongs to exactly one of them.
OneDefaultPerRole ==
  \A role \in {isDefault, isDefaultBilling} :
    /\ role \subseteq addresses
    /\ addresses # {} => \E a \in addresses : role = {a}
=============================================================================
