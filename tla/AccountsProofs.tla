---------------------------- MODULE AccountsProofs ----------------------------
(***************************************************************************)
(* What holds of an account for any number of requests, sessions, tokens   *)
(* and addresses.  The properties speak of requests that found a row and   *)
(* act on it later, so the inductive invariant says what a request that is *)
(* half way may still rely on: which lock it holds, that the account it    *)
(* read under that lock still exists, and that rows it found are there.    *)
(***************************************************************************)
EXTENDS Accounts, WellFoundedInduction, TLAPS

USE AccountsAssumption

-----------------------------------------------------------------------------
(* Type correctness.                                                       *)

\* The row promoted by a deletion is one of those that remain.
LEMMA MinOfNaturals ==
  ASSUME NEW S \in SUBSET Nat, S # {}
  PROVE  Min(S) \in S
<1> DEFINE less == OpToRel(<, Nat)
<1>1. IsWellFoundedOn(less, Nat)
  BY NatLessThanWellFounded, Zenon
<1> HIDE DEF less
<1>2. PICK x \in S : \A y \in S : ~ (<<y, x>> \in less)
  BY <1>1, WFMin, Zenon
<1>3. \A y \in S : <<y, x>> \in less <=> y < x
  BY DEF less, OpToRel
<1>4. \A y \in S : ~ (y < x)
  BY <1>2, <1>3, Zenon
<1>5. \A y \in S : x =< y
  BY <1>4, S \subseteq Nat
<1> QED BY <1>5 DEF Min

\* A role that one row had passes to one of the rows that remain.
LEMMA HandOverRole ==
  ASSUME addresses \subseteq AddressIds, NEW a \in addresses, NEW role \in SUBSET addresses,
         \E b \in addresses : role = {b}
  PROVE  /\ HandOver(role, a) \subseteq addresses \ {a}
         /\ addresses # {a} => \E b \in addresses \ {a} : HandOver(role, a) = {b}
<1>1. CASE a \notin role
  BY <1>1 DEF HandOver
<1>2. CASE role = {a}
  <2>1. CASE addresses = {a}
    BY <1>2, <2>1 DEF HandOver
  <2>2. CASE addresses # {a}
    <3>1. Min(addresses \ {a}) \in addresses \ {a}
      BY <2>2, MinOfNaturals
    <3> QED BY <1>2, <2>2, <3>1 DEF HandOver
  <2> QED BY <2>1, <2>2
<1> QED BY <1>1, <1>2

\* A handler's step replaces its record by a well-typed one.
LEMMA ProceedType ==
  ASSUME request \in [Requests -> RequestTypes], NEW r \in Requests, NEW next \in RequestTypes,
         request' = [request EXCEPT ![r] = next]
  PROVE  request' \in [Requests -> RequestTypes]
OBVIOUS

\* Every handler leaves its request well typed.
LEMMA RequestType == AccountsTypeOK /\ [AccountsNext]_accountVars => request' \in [Requests -> RequestTypes]
<1> SUFFICES ASSUME AccountsTypeOK, [AccountsNext]_accountVars
             PROVE  request' \in [Requests -> RequestTypes]
  OBVIOUS
<1>0. request \in [Requests -> RequestTypes]
  BY DEF AccountsTypeOK
<1>1. ASSUME NEW r \in Requests, Finish(r)
      PROVE  request' \in [Requests -> RequestTypes]
  <2>1. Idle \in RequestTypes
    BY DEF Idle, RequestTypes, Steps
  <2> QED BY <1>0, <1>1, <2>1, ProceedType DEF Finish
<1>2. ASSUME NEW r \in Requests, NEW step \in Steps \ {"rotating", "loggingOut"},
             NEW token \in Tokens \union VerificationTokens \union {None},
             Proceed(r, step, None, token)
      PROVE  request' \in [Requests -> RequestTypes]
  <2>1. [step |-> step, session |-> None, presented |-> token] \in RequestTypes
    BY DEF RequestTypes
  <2> QED BY <1>0, <1>2, <2>1, ProceedType DEF Proceed
<1>3. ASSUME NEW r \in Requests, At(r, "resetting") \/ At(r, "consumed")
      PROVE  request[r].presented \in Tokens \union VerificationTokens \union {None}
  BY <1>0, <1>3 DEF At, RequestTypes
<1>4. ASSUME NEW r \in Requests, SessionNext(r) PROVE request' \in [Requests -> RequestTypes]
  <2>1. ASSUME NEW s \in SessionIds, NEW c \in Credentials,
               DiscoverForRotation(r, s, c) \/ DiscoverForLogout(r, s, c)
        PROVE  request' \in [Requests -> RequestTypes]
    <3>1. \A step \in {"rotating", "loggingOut"} :
            [step |-> step, session |-> s, presented |-> c] \in RequestTypes
      BY DEF RequestTypes
    <3> QED BY <1>0, <2>1, <3>1, ProceedType DEF DiscoverForRotation, DiscoverForLogout, Discover, Proceed
  <2> QED BY <1>1, <1>2, <1>4, <2>1
          DEF SessionNext, BeginLogin, createRefreshSession, rotateRefreshSession,
              revokeRefreshSession, Steps
<1>5. ASSUME NEW r \in Requests, ResetNext(r) PROVE request' \in [Requests -> RequestTypes]
  <2>1. ASSUME NEW t \in Tokens, FindResetToken(r, t)
        PROVE  request' \in [Requests -> RequestTypes]
    BY <1>2, <2>1 DEF FindResetToken, Steps
  <2> QED BY <1>1, <1>2, <1>3, <1>5, <2>1
          DEF ResetNext, BeginForgotPassword, createOrReplacePasswordResetToken,
              ConsumeResetToken, ReadUserForReset, RollBack, SetPassword, Steps
<1>6. ASSUME NEW r \in Requests, EmailNext(r) PROVE request' \in [Requests -> RequestTypes]
  <2>1. ASSUME NEW t \in VerificationTokens, FindVerificationToken(r, t)
        PROVE  request' \in [Requests -> RequestTypes]
    BY <1>2, <2>1 DEF FindVerificationToken, Steps
  <2> QED BY <1>1, <1>2, <1>6, <2>1
          DEF EmailNext, BeginResend, createOrReplaceEmailVerificationToken,
              changeUnverifiedUserEmail, verifyEmailVerificationToken, Steps
<1>7. ASSUME NEW r \in Requests, AddressNext(r) PROVE request' \in [Requests -> RequestTypes]
  BY <1>1, <1>7 DEF AddressNext, createAddress, updateAddress, deleteAddress, StoreAddresses
<1>8. ASSUME NEW r \in Requests,
             \/ Authenticate(r)
             \/ LockUserForDeletion(r)
             \/ deleteCustomerAccount(r)
             \/ AbortDeadlock(r)
      PROVE  request' \in [Requests -> RequestTypes]
  BY <1>1, <1>2, <1>8 DEF Authenticate, LockUserForDeletion, deleteCustomerAccount, AbortDeadlock, RollBack, Steps
<1>9. ASSUME NEW s \in SessionIds, ExpireSession(s) PROVE request' \in [Requests -> RequestTypes]
  BY <1>0, <1>9 DEF ExpireSession
<1>10. CASE UNCHANGED accountVars
  BY <1>0, <1>10 DEF accountVars
<1> QED BY <1>4, <1>5, <1>6, <1>7, <1>8, <1>9, <1>10 DEF AccountsNext

\* A signed-up account is well typed.
LEMMA AccountsInitType == AccountsInit => AccountsTypeOK
<1> SUFFICES ASSUME AccountsInit PROVE AccountsTypeOK
  OBVIOUS
<1>1. Idle \in RequestTypes
  BY DEF Idle, RequestTypes, Steps
<1>2. NotIssued \in Issues
  BY DEF NotIssued, Issues
<1>3. issuedFor \in Seq(Emails \union {None})
  BY DEF AccountsInit
<1> QED BY <1>1, <1>2, <1>3 DEF AccountsInit, AccountsTypeOK, RowsTypeOK

\* Every handler leaves the rows well typed.
LEMMA RowsType == AccountsTypeOK /\ [AccountsNext]_accountVars => RowsTypeOK'
<1> SUFFICES ASSUME AccountsTypeOK, [AccountsNext]_accountVars PROVE RowsTypeOK'
  OBVIOUS
<1>0. RowsTypeOK
  BY DEF AccountsTypeOK
<1> USE <1>0 DEF RowsTypeOK, sessionVars, passwordVars, emailVars, lockVars, addressVars
<1>1. ASSUME NEW r \in Requests, SessionNext(r) PROVE RowsTypeOK'
  <2>1. ASSUME NEW s \in SessionIds, NEW c \in Credentials,
               createRefreshSession(r, s, c)
        PROVE  RowsTypeOK'
    <3>1. [session |-> s, replaced |-> None] \in Issues
      BY DEF Issues
    <3> QED BY <2>1, <3>1 DEF createRefreshSession
  <2>2. ASSUME NEW s \in SessionIds, NEW c \in Credentials,
               DiscoverForRotation(r, s, c) \/ DiscoverForLogout(r, s, c)
        PROVE  RowsTypeOK'
    BY <2>2 DEF DiscoverForRotation, DiscoverForLogout, Discover
  <2>3. ASSUME NEW c \in Credentials, rotateRefreshSession(r, c) PROVE RowsTypeOK'
    <3>1. [session |-> request[r].session, replaced |-> request[r].presented] \in Issues
      BY <2>3 DEF rotateRefreshSession, At, AccountsTypeOK, RequestTypes, Issues
    <3>2. /\ \/ refreshTokenHash' = refreshTokenHash
             \/ refreshTokenHash' = [refreshTokenHash EXCEPT ![request[r].session] = c]
          /\ \/ issued' = issued
             \/ issued' = [issued EXCEPT ![c] = [session |-> request[r].session,
                                               replaced |-> request[r].presented]]
          /\ UNCHANGED <<revoked, expired, deleted, passwordVars, emailVars, lockVars, addressVars>>
      BY <2>3 DEF rotateRefreshSession
    <3>3. refreshTokenHash' \in [SessionIds -> Credentials \union {None}]
      BY <3>2
    <3>4. issued' \in [Credentials -> Issues]
      BY <3>1, <3>2
    <3> QED BY <3>2, <3>3, <3>4
  <2>4. CASE BeginLogin(r)
    BY <2>4 DEF BeginLogin
  <2>5. CASE revokeRefreshSession(r)
    <3>1. request[r].session \in SessionIds
      BY <2>5 DEF revokeRefreshSession, At, AccountsTypeOK, RequestTypes
    <3> QED BY <2>5, <3>1 DEF revokeRefreshSession
  <2> QED BY <1>1, <2>1, <2>2, <2>3, <2>4, <2>5 DEF SessionNext
<1>2. ASSUME NEW r \in Requests, ResetNext(r) PROVE RowsTypeOK'
  BY <1>2 DEF ResetNext, BeginForgotPassword, createOrReplacePasswordResetToken, FindResetToken,
              ConsumeResetToken, ReadUserForReset, RollBack, SetPassword, Unlocked
<1>3. ASSUME NEW r \in Requests, EmailNext(r) PROVE RowsTypeOK'
  <2>1. ASSUME NEW address \in Emails \union {None}, ReplaceVerificationToken(address)
        PROVE  /\ verificationToken' \in VerificationTokens
               /\ issuedFor' \in Seq(Emails \union {None})
    BY <2>1 DEF ReplaceVerificationToken
  <2>2. CASE createOrReplaceEmailVerificationToken(r)
    BY <2>1, <2>2 DEF createOrReplaceEmailVerificationToken
  <2>3. ASSUME NEW address \in Emails, changeUnverifiedUserEmail(r, address) PROVE RowsTypeOK'
    BY <2>1, <2>3 DEF changeUnverifiedUserEmail
  <2>4. CASE verifyEmailVerificationToken(r)
    BY <2>4 DEF verifyEmailVerificationToken
  <2> QED BY <1>3, <2>2, <2>3, <2>4 DEF EmailNext, BeginResend, FindVerificationToken
<1>4. ASSUME NEW r \in Requests, AddressNext(r) PROVE RowsTypeOK'
  <2>1. ASSUME NEW a \in AddressIds, NEW shipping \in BOOLEAN, NEW billing \in BOOLEAN,
               createAddress(r, a, shipping, billing) \/ updateAddress(r, a, shipping, billing)
        PROVE  RowsTypeOK'
    BY <2>1 DEF createAddress, updateAddress, StoreAddresses
  <2>2. ASSUME NEW a \in AddressIds, deleteAddress(r, a)
        PROVE  RowsTypeOK'
    <3>1. addresses # {a} => Min(addresses \ {a}) \in AddressIds
      <4>1. addresses \ {a} \in SUBSET Nat
        OBVIOUS
      <4>2. addresses # {a} => addresses \ {a} # {}
        BY <2>2 DEF deleteAddress
      <4> QED BY <4>1, <4>2, MinOfNaturals
    <3>2. HandOver(isDefault, a) \subseteq AddressIds /\ HandOver(isDefaultBilling, a) \subseteq AddressIds
      BY <3>1 DEF HandOver
    <3> QED BY <2>2, <3>2 DEF deleteAddress, StoreAddresses
  <2> QED BY <1>4, <2>1, <2>2 DEF AddressNext
<1>5. ASSUME NEW r \in Requests,
             \/ Authenticate(r)
             \/ LockUserForDeletion(r)
             \/ deleteCustomerAccount(r)
             \/ AbortDeadlock(r)
      PROVE  RowsTypeOK'
  BY <1>5 DEF Authenticate, LockUserForDeletion, deleteCustomerAccount, AbortDeadlock, RollBack, Unlocked
<1>6. ASSUME NEW s \in SessionIds, ExpireSession(s) PROVE RowsTypeOK'
  BY <1>6 DEF ExpireSession
<1>7. CASE UNCHANGED accountVars
  BY <1>7 DEF accountVars
<1> QED BY <1>1, <1>2, <1>3, <1>4, <1>5, <1>6, <1>7 DEF AccountsNext

\* Both together.
LEMMA AccountsNextType == AccountsTypeOK /\ [AccountsNext]_accountVars => AccountsTypeOK'
BY RequestType, RowsType DEF AccountsTypeOK

\* Whatever requests interleave, every row and every request stays well typed.
THEOREM AccountsTypeCorrect == AccountsSpec => []AccountsTypeOK
BY AccountsInitType, AccountsNextType, PTL DEF AccountsSpec

-----------------------------------------------------------------------------
(* The inductive invariant.                                                *)

\* A handler holds a row lock exactly while it is between the statement that
\* takes the lock and its commit, and the account it read is still there.
LocksHeld ==
  \A r \in Requests :
    /\ tokenLock = r <=> request[r].step \in {"consumed", "setting"}
    /\ userLock = r <=> request[r].step = "erasing"
    /\ request[r].step \in {"setting", "erasing"} => ~deleted

\* A session that was found, or revoked, has a row; each row's credential was
\* issued to it, and so was every credential that has been replaced.
SessionsKept ==
  /\ \A r \in Requests :
       request[r].step \in {"rotating", "loggingOut"} => refreshTokenHash[request[r].session] # None
  /\ \A s \in SessionIds :
       /\ s \in revoked => refreshTokenHash[s] # None
       /\ refreshTokenHash[s] # None => issued[refreshTokenHash[s]].session = s
  /\ \A c, d \in Credentials : issued[d].replaced = c => issued[c] # NotIssued

\* The verification token in force was issued for the present address.
TokenFits ==
  /\ \A r \in Requests : request[r].step = "verifying" => request[r].presented # None
  /\ verificationToken # None =>
       verificationToken \in 1..Len(issuedFor) /\ issuedFor[verificationToken] = email

\* The inductive invariant.
AccountsIInv ==
  /\ AccountsTypeOK /\ LocksHeld
  /\ SessionsKept /\ CredentialRotatesOnce
  /\ deleted => passwordHash = "unusable"
  /\ TokenFits
  /\ OneDefaultPerRole

\* The invariant holds after signup.
LEMMA AccountsInitIInv == AccountsInit => AccountsIInv
<1> SUFFICES ASSUME AccountsInit PROVE AccountsIInv
  OBVIOUS
<1>1. AccountsTypeOK
  BY AccountsInitType
<1>2. \A r \in Requests : request[r].step = "idle"
  BY DEF AccountsInit, Idle
<1>3. LocksHeld
  BY <1>2 DEF AccountsInit, LocksHeld
<1>4. \A c \in Credentials : issued[c].session = None /\ issued[c].replaced = None
  BY DEF AccountsInit, NotIssued
<1>5. SessionsKept /\ CredentialRotatesOnce
  BY <1>2, <1>4 DEF AccountsInit, SessionsKept, CredentialRotatesOnce
<1>6. TokenFits
  <2>1. issuedFor = <<SignupEmail>> /\ Len(issuedFor) = 1 /\ issuedFor[1] = SignupEmail
    BY DEF AccountsInit
  <2> QED BY <1>2, <2>1 DEF AccountsInit, TokenFits
<1>7. OneDefaultPerRole
  BY DEF AccountsInit, OneDefaultPerRole
<1> QED BY <1>1, <1>3, <1>5, <1>6, <1>7 DEF AccountsInit, AccountsIInv

\* What a step does to the requests: one of them, at most, moves.
LEMMA ProceedStep ==
  ASSUME AccountsTypeOK, NEW r \in Requests, NEW step, NEW session, NEW presented,
         Proceed(r, step, session, presented)
  PROVE  /\ request'[r].step = step
         /\ request'[r].session = session
         /\ request'[r].presented = presented
         /\ \A q \in Requests \ {r} : request'[q] = request[q]
BY DEF Proceed, AccountsTypeOK

\* A handler that ends leaves the other requests alone.
LEMMA FinishStep ==
  ASSUME AccountsTypeOK, NEW r \in Requests, Finish(r)
  PROVE  /\ request'[r].step = "idle"
         /\ \A q \in Requests \ {r} : request'[q] = request[q]
BY DEF Finish, Idle, AccountsTypeOK

\* What the requests of one kind do and leave alone.
Moves(r, steps) ==
  Finish(r) \/ \E step \in steps : \E session, presented : Proceed(r, step, session, presented)

\* What the session handlers leave alone.
LEMMA SessionFrame ==
  ASSUME NEW r \in Requests, SessionNext(r)
  PROVE  /\ UNCHANGED <<deleted, passwordVars, emailVars, lockVars, addressVars>>
         /\ request[r].step \in {"idle", "loggingIn", "rotating", "loggingOut"}
         /\ Moves(r, {"loggingIn", "rotating", "loggingOut"})
BY DEF SessionNext, BeginLogin, createRefreshSession, DiscoverForRotation, DiscoverForLogout,
       Discover, rotateRefreshSession, revokeRefreshSession, At, Moves

\* What the password handlers leave alone.
LEMMA ResetFrame ==
  ASSUME NEW r \in Requests, ResetNext(r)
  PROVE  /\ UNCHANGED <<sessionVars, deleted, emailVars, addressVars>>
         /\ request[r].step \in {"idle", "forgetting", "resetting", "consumed", "setting"}
         /\ Moves(r, {"forgetting", "resetting", "consumed", "setting"})
BY DEF ResetNext, BeginForgotPassword, createOrReplacePasswordResetToken, FindResetToken,
       ConsumeResetToken, ReadUserForReset, RollBack, SetPassword, At, Moves

\* What the e-mail handlers leave alone.
LEMMA EmailFrame ==
  ASSUME NEW r \in Requests, EmailNext(r)
  PROVE  /\ UNCHANGED <<sessionVars, deleted, passwordVars, lockVars, addressVars>>
         /\ request[r].step \in {"idle", "authenticated", "resending", "verifying"}
         /\ Moves(r, {"resending", "verifying"})
BY DEF EmailNext, BeginResend, createOrReplaceEmailVerificationToken, changeUnverifiedUserEmail,
       FindVerificationToken, verifyEmailVerificationToken, At, Moves

\* What the address handlers leave alone.
LEMMA AddressFrame ==
  ASSUME NEW r \in Requests, AddressNext(r)
  PROVE  /\ UNCHANGED <<sessionVars, deleted, passwordVars, emailVars, lockVars>>
         /\ request[r].step = "authenticated" /\ Finish(r)
BY DEF AddressNext, createAddress, updateAddress, deleteAddress, StoreAddresses, At

DeletionNext(r) ==
  Authenticate(r) \/ LockUserForDeletion(r) \/ deleteCustomerAccount(r) \/ AbortDeadlock(r)

\* What the deletion leaves alone.
LEMMA DeletionFrame ==
  ASSUME AccountsTypeOK, LocksHeld, NEW r \in Requests, DeletionNext(r)
  PROVE  /\ UNCHANGED sessionVars
         /\ deleteCustomerAccount(r) \/ UNCHANGED <<deleted, passwordVars, emailVars, addressVars>>
         /\ request[r].step \in {"idle", "authenticated", "erasing", "consumed", "setting"}
         /\ Moves(r, {"authenticated", "erasing"})
BY DEF DeletionNext, Authenticate, LockUserForDeletion, deleteCustomerAccount, AbortDeadlock,
       RollBack, At, Moves, LocksHeld

\* A lock is held by the request that is between its two steps.
LEMMA LocksHeldNext == AccountsTypeOK /\ LocksHeld /\ [AccountsNext]_accountVars => LocksHeld'
<1> SUFFICES ASSUME AccountsTypeOK, LocksHeld, [AccountsNext]_accountVars PROVE LocksHeld'
  OBVIOUS
<1> USE DEF LocksHeld, At, sessionVars, passwordVars, emailVars, lockVars, addressVars
<1>1. ASSUME NEW r \in Requests, UNCHANGED <<lockVars, deleted>>,
             request[r].step \notin {"consumed", "setting", "erasing"},
             Moves(r, Steps \ {"consumed", "setting", "erasing"})
      PROVE  LocksHeld'
  BY <1>1, FinishStep, ProceedStep DEF Moves
<1>2. ASSUME NEW r \in Requests, SessionNext(r) \/ EmailNext(r) \/ AddressNext(r) \/ Authenticate(r)
      PROVE  LocksHeld'
  <2>1. UNCHANGED <<lockVars, deleted>> /\ request[r].step \notin {"consumed", "setting", "erasing"}
    BY <1>2, SessionFrame, EmailFrame, AddressFrame DEF Authenticate
  <2>2. Moves(r, Steps \ {"consumed", "setting", "erasing"})
    BY <1>2, SessionFrame, EmailFrame, AddressFrame DEF Authenticate, Moves, Steps
  <2> QED BY <1>1, <2>1, <2>2
<1>3. ASSUME NEW r \in Requests, RollBack(r) PROVE LocksHeld'
  BY <1>3, FinishStep DEF RollBack, Unlocked, AccountsTypeOK, RowsTypeOK
<1>4. ASSUME NEW r \in Requests, ResetNext(r) PROVE LocksHeld'
  <2>1. ASSUME \/ BeginForgotPassword(r)
               \/ \E t \in Tokens : createOrReplacePasswordResetToken(r, t) \/ FindResetToken(r, t)
        PROVE  LocksHeld'
    <3>1. UNCHANGED <<lockVars, deleted>> /\ request[r].step \notin {"consumed", "setting", "erasing"}
      BY <2>1 DEF BeginForgotPassword, createOrReplacePasswordResetToken, FindResetToken
    <3>2. Moves(r, Steps \ {"consumed", "setting", "erasing"})
      BY <2>1 DEF BeginForgotPassword, createOrReplacePasswordResetToken, FindResetToken, Moves, Steps
    <3> QED BY <1>1, <3>1, <3>2
  <2>2. CASE ConsumeResetToken(r)
    BY <2>2, FinishStep, ProceedStep DEF ConsumeResetToken
  <2>3. CASE ReadUserForReset(r)
    BY <1>3, <2>3, ProceedStep DEF ReadUserForReset
  <2>4. CASE SetPassword(r)
    BY <2>4, FinishStep DEF SetPassword, Unlocked
  <2> QED BY <1>4, <2>1, <2>2, <2>3, <2>4 DEF ResetNext
<1>5. ASSUME NEW r \in Requests, LockUserForDeletion(r) PROVE LocksHeld'
  BY <1>5, FinishStep, ProceedStep DEF LockUserForDeletion
<1>6. ASSUME NEW r \in Requests, deleteCustomerAccount(r) PROVE LocksHeld'
  BY <1>6, FinishStep DEF deleteCustomerAccount
<1>7. ASSUME NEW r \in Requests, AbortDeadlock(r) PROVE LocksHeld'
  BY <1>3, <1>7 DEF AbortDeadlock
<1>8. ASSUME NEW s \in SessionIds, ExpireSession(s) PROVE LocksHeld'
  BY <1>8 DEF ExpireSession
<1>9. CASE UNCHANGED accountVars
  BY <1>9 DEF accountVars
<1> QED BY <1>2, <1>4, <1>5, <1>6, <1>7, <1>8, <1>9 DEF AccountsNext

\* The session rows change only where sessions are handled.
LEMMA SessionsUnchanged ==
  ASSUME AccountsTypeOK, SessionsKept, CredentialRotatesOnce, NEW r \in Requests,
         UNCHANGED <<refreshTokenHash, revoked, issued>>, Moves(r, Steps \ {"rotating", "loggingOut"})
  PROVE  SessionsKept' /\ CredentialRotatesOnce'
BY FinishStep, ProceedStep DEF SessionsKept, CredentialRotatesOnce, Moves

\* A session's new credential replaces the one it has, or none if it is new.
LEMMA IssueKeeps ==
  ASSUME AccountsTypeOK, SessionsKept, CredentialRotatesOnce, NEW r \in Requests,
         NEW s \in SessionIds, NEW c \in Credentials, NEW p \in Credentials \union {None},
         issued[c] = NotIssued, refreshTokenHash[s] = p,
         refreshTokenHash' = [refreshTokenHash EXCEPT ![s] = c],
         issued' = [issued EXCEPT ![c] = [session |-> s, replaced |-> p]],
         UNCHANGED revoked, Finish(r)
  PROVE  SessionsKept' /\ CredentialRotatesOnce'
<1>1. /\ refreshTokenHash'[s] = c /\ issued'[c].session = s /\ issued'[c].replaced = p
      /\ \A t \in SessionIds \ {s} : refreshTokenHash'[t] = refreshTokenHash[t]
      /\ \A d \in Credentials \ {c} : issued'[d] = issued[d]
  BY DEF AccountsTypeOK, RowsTypeOK
<1>2. issued[c].session = None /\ issued[c].replaced = None /\ issued'[c] # NotIssued
  BY <1>1 DEF NotIssued
<1>3. \A q \in Requests : request'[q].step \in {"rotating", "loggingOut"} =>
        request'[q] = request[q] /\ request[q].session \in SessionIds
  BY FinishStep DEF AccountsTypeOK, RequestTypes
<1>4. \A t \in SessionIds : refreshTokenHash[t] # None =>
        /\ refreshTokenHash[t] \in Credentials /\ refreshTokenHash[t] # c
        /\ issued[refreshTokenHash[t]].session = t
  BY <1>2 DEF SessionsKept, AccountsTypeOK, RowsTypeOK
<1>5. \A t \in SessionIds : /\ t \in revoked' => refreshTokenHash'[t] # None
                            /\ refreshTokenHash'[t] # None => issued'[refreshTokenHash'[t]].session = t
  BY <1>1, <1>4 DEF SessionsKept
<1>6. p # None => p # c /\ \A t \in SessionIds \ {s} : refreshTokenHash[t] # p
  BY <1>4
<1>7. \A b, d \in Credentials : issued'[d].replaced = b => issued'[b] # NotIssued
  <2>1. p # None => issued[p] # NotIssued
    BY <1>4 DEF NotIssued
  <2> QED BY <1>1, <1>2, <1>6, <2>1 DEF SessionsKept
<1>8. \A q \in Requests : request'[q].step \in {"rotating", "loggingOut"} =>
        refreshTokenHash'[request'[q].session] # None
  BY <1>1, <1>3 DEF SessionsKept
<1>9. \A d \in Credentials : issued[d].replaced # c
  BY <1>2 DEF SessionsKept, NotIssued
<1>10. CredentialRotatesOnce'
  <2>1. ASSUME NEW b \in Credentials, NEW d \in Credentials,
               issued'[b].replaced # None, issued'[b].replaced = issued'[d].replaced
        PROVE  b = d
    BY <1>1, <2>1 DEF CredentialRotatesOnce
  <2>2. ASSUME NEW b \in Credentials, NEW d \in Credentials, issued'[d].replaced = b, NEW t \in SessionIds
        PROVE  refreshTokenHash'[t] # b
    BY <1>1, <1>6, <1>9, <2>2 DEF CredentialRotatesOnce
  <2> QED BY <2>1, <2>2 DEF CredentialRotatesOnce
<1> QED BY <1>5, <1>7, <1>8, <1>10 DEF SessionsKept

\* Sessions keep to their credentials.
LEMMA SessionsKeptNext ==
  /\ AccountsTypeOK /\ LocksHeld /\ SessionsKept /\ CredentialRotatesOnce /\ [AccountsNext]_accountVars
  => SessionsKept' /\ CredentialRotatesOnce'
<1> SUFFICES ASSUME AccountsTypeOK, LocksHeld, SessionsKept, CredentialRotatesOnce,
                    [AccountsNext]_accountVars
             PROVE  SessionsKept' /\ CredentialRotatesOnce'
  OBVIOUS
<1> USE DEF At, sessionVars
<1>1. ASSUME NEW r \in Requests,
             ResetNext(r) \/ EmailNext(r) \/ AddressNext(r) \/ DeletionNext(r) \/ BeginLogin(r)
      PROVE  SessionsKept' /\ CredentialRotatesOnce'
  <2>1. UNCHANGED <<refreshTokenHash, revoked, issued>>
    BY <1>1, ResetFrame, EmailFrame, AddressFrame, DeletionFrame DEF BeginLogin
  <2>2. Moves(r, Steps \ {"rotating", "loggingOut"})
    BY <1>1, ResetFrame, EmailFrame, AddressFrame, DeletionFrame DEF BeginLogin, Moves, Steps
  <2> QED BY <2>1, <2>2, SessionsUnchanged
<1>2. ASSUME NEW r \in Requests, NEW s \in SessionIds, NEW c \in Credentials,
             createRefreshSession(r, s, c)
      PROVE  SessionsKept' /\ CredentialRotatesOnce'
  <2>1. refreshTokenHash[s] = None /\ issued[c] = NotIssued
    BY <1>2 DEF createRefreshSession, Fresh
  <2> QED BY <1>2, <2>1, IssueKeeps DEF createRefreshSession
<1>3. ASSUME NEW r \in Requests, NEW c \in Credentials, rotateRefreshSession(r, c)
      PROVE  SessionsKept' /\ CredentialRotatesOnce'
  <2>1. CASE ~StillCurrent(r)
    BY <1>3, <2>1, SessionsUnchanged DEF rotateRefreshSession, Moves
  <2>2. CASE StillCurrent(r)
    <3>1. PICK s \in SessionIds, p \in Credentials : s = request[r].session /\ p = request[r].presented
      BY <1>3 DEF rotateRefreshSession, AccountsTypeOK, RequestTypes
    <3>2. /\ refreshTokenHash' = [refreshTokenHash EXCEPT ![s] = c]
          /\ issued' = [issued EXCEPT ![c] = [session |-> s, replaced |-> p]]
          /\ UNCHANGED revoked /\ Finish(r)
          /\ issued[c] = NotIssued /\ refreshTokenHash[s] = p
      BY <1>3, <2>2, <3>1 DEF rotateRefreshSession, StillCurrent, Fresh
    <3> QED BY <3>2, IssueKeeps
  <2> QED BY <2>1, <2>2
<1>4. ASSUME NEW r \in Requests, NEW s \in SessionIds, NEW c \in Credentials,
             DiscoverForRotation(r, s, c) \/ DiscoverForLogout(r, s, c)
      PROVE  SessionsKept' /\ CredentialRotatesOnce'
  BY <1>4, ProceedStep DEF DiscoverForRotation, DiscoverForLogout, Discover, SessionsKept, CredentialRotatesOnce
<1>5. ASSUME NEW r \in Requests, revokeRefreshSession(r)
      PROVE  SessionsKept' /\ CredentialRotatesOnce'
  BY <1>5, FinishStep DEF revokeRefreshSession, SessionsKept, CredentialRotatesOnce
<1>6. ASSUME NEW r \in Requests, SessionNext(r) PROVE SessionsKept' /\ CredentialRotatesOnce'
  BY <1>1, <1>2, <1>3, <1>4, <1>5, <1>6 DEF SessionNext
<1>7. ASSUME NEW s \in SessionIds, ExpireSession(s) PROVE SessionsKept' /\ CredentialRotatesOnce'
  BY <1>7 DEF ExpireSession, SessionsKept, CredentialRotatesOnce
<1>8. CASE UNCHANGED accountVars
  BY <1>8 DEF accountVars, SessionsKept, CredentialRotatesOnce
<1> QED BY <1>1, <1>6, <1>7, <1>8 DEF AccountsNext, DeletionNext

\* An erased account has no password that works.
LEMMA PasswordGoneNext ==
  ASSUME AccountsTypeOK, LocksHeld, deleted => passwordHash = "unusable", [AccountsNext]_accountVars
  PROVE  (deleted => passwordHash = "unusable") /\ (deleted' => passwordHash' = "unusable")
<1> USE DEF At, passwordVars
<1>1. ASSUME NEW r \in Requests, ResetNext(r) PROVE deleted' => passwordHash' = "unusable"
  BY <1>1 DEF ResetNext, BeginForgotPassword, createOrReplacePasswordResetToken, FindResetToken,
              ConsumeResetToken, ReadUserForReset, RollBack, SetPassword, LocksHeld
<1>2. ASSUME NEW r \in Requests, SessionNext(r) \/ EmailNext(r) \/ AddressNext(r) \/ DeletionNext(r)
      PROVE  deleted' => passwordHash' = "unusable"
  BY <1>2, SessionFrame, EmailFrame, AddressFrame, DeletionFrame DEF deleteCustomerAccount
<1>3. ASSUME NEW s \in SessionIds, ExpireSession(s) PROVE deleted' => passwordHash' = "unusable"
  BY <1>3 DEF ExpireSession
<1>4. CASE UNCHANGED accountVars
  BY <1>4 DEF accountVars
<1> QED BY <1>1, <1>2, <1>3, <1>4 DEF AccountsNext, DeletionNext

\* The token in force stays one for the present address.
LEMMA TokenFitsNext ==
  ASSUME AccountsTypeOK, LocksHeld, TokenFits, [AccountsNext]_accountVars
  PROVE  TokenFits'
<1> USE DEF At, emailVars
<1>1. ASSUME NEW r \in Requests, UNCHANGED emailVars, Moves(r, Steps \ {"verifying"})
      PROVE  TokenFits'
  BY <1>1, FinishStep, ProceedStep DEF TokenFits, Moves
<1>2. ASSUME NEW address \in Emails \union {None}, NEW r \in Requests,
             Finish(r), ReplaceVerificationToken(address), email' = address
      PROVE  TokenFits'
  <2>1. issuedFor \in Seq(Emails \union {None})
    BY DEF AccountsTypeOK, RowsTypeOK
  <2>2. /\ Len(issuedFor') = Len(issuedFor) + 1 /\ verificationToken' = Len(issuedFor')
        /\ issuedFor'[Len(issuedFor')] = address
        /\ Len(issuedFor) \in Nat
    BY <1>2, <2>1 DEF ReplaceVerificationToken
  <2>3. \A q \in Requests : request'[q].step = "verifying" => request'[q].presented # None
    BY <1>2, FinishStep DEF TokenFits
  <2>4. verificationToken' \in 1..Len(issuedFor') /\ issuedFor'[verificationToken'] = email'
    BY <1>2, <2>2
  <2> QED BY <2>3, <2>4 DEF TokenFits
<1>3. ASSUME NEW r \in Requests, EmailNext(r) PROVE TokenFits'
  <2>1. CASE createOrReplaceEmailVerificationToken(r)
    BY <1>2, <2>1 DEF createOrReplaceEmailVerificationToken, AccountsTypeOK, RowsTypeOK
  <2>2. ASSUME NEW address \in Emails, changeUnverifiedUserEmail(r, address) PROVE TokenFits'
    BY <1>2, <2>2 DEF changeUnverifiedUserEmail
  <2>3. ASSUME NEW t \in VerificationTokens, FindVerificationToken(r, t) PROVE TokenFits'
    <3>1. /\ request'[r].presented = t /\ t # None
          /\ \A q \in Requests \ {r} : request'[q] = request[q]
      BY <2>3, ProceedStep DEF FindVerificationToken
    <3> QED BY <2>3, <3>1 DEF FindVerificationToken, TokenFits
  <2>4. CASE verifyEmailVerificationToken(r)
    BY <2>4, FinishStep DEF verifyEmailVerificationToken, TokenFits
  <2>5. CASE BeginResend(r)
    BY <1>1, <2>5 DEF BeginResend, Moves, Steps
  <2> QED BY <1>3, <2>1, <2>2, <2>3, <2>4, <2>5 DEF EmailNext
<1>4. ASSUME NEW r \in Requests, deleteCustomerAccount(r) PROVE TokenFits'
  BY <1>4, FinishStep DEF deleteCustomerAccount, TokenFits
<1>5. ASSUME NEW r \in Requests, SessionNext(r) \/ ResetNext(r) \/ AddressNext(r) \/ DeletionNext(r)
      PROVE  TokenFits'
  <2>1. CASE UNCHANGED emailVars
    <3>1. Moves(r, Steps \ {"verifying"})
      BY <1>5, SessionFrame, ResetFrame, AddressFrame, DeletionFrame DEF Moves, Steps
    <3> QED BY <1>1, <2>1, <3>1
  <2> QED BY <1>4, <1>5, <2>1, SessionFrame, ResetFrame, AddressFrame, DeletionFrame
<1>6. ASSUME NEW s \in SessionIds, ExpireSession(s) PROVE TokenFits'
  BY <1>6 DEF ExpireSession, TokenFits
<1>7. CASE UNCHANGED accountVars
  BY <1>7 DEF accountVars, TokenFits
<1> QED BY <1>3, <1>5, <1>6, <1>7 DEF AccountsNext, DeletionNext

\* Each role has one default row while there is any row.
LEMMA OneDefaultNext ==
  ASSUME AccountsTypeOK, LocksHeld, OneDefaultPerRole, [AccountsNext]_accountVars
  PROVE  OneDefaultPerRole'
<1> USE DEF OneDefaultPerRole, addressVars
<1>1. ASSUME NEW r \in Requests, NEW a \in AddressIds, NEW shipping \in BOOLEAN, NEW billing \in BOOLEAN,
             createAddress(r, a, shipping, billing) \/ updateAddress(r, a, shipping, billing)
      PROVE  OneDefaultPerRole'
  BY <1>1 DEF createAddress, updateAddress, StoreAddresses
<1>2. ASSUME NEW r \in Requests, NEW a \in AddressIds, deleteAddress(r, a)
      PROVE  OneDefaultPerRole'
  <2>1. a \in addresses /\ addresses \subseteq AddressIds
    BY <1>2 DEF deleteAddress, AccountsTypeOK, RowsTypeOK
  <2>2. \A role \in {isDefault, isDefaultBilling} :
          /\ HandOver(role, a) \subseteq addresses \ {a}
          /\ addresses # {a} => \E b \in addresses \ {a} : HandOver(role, a) = {b}
    BY <2>1, HandOverRole
  <2> QED BY <1>2, <2>1, <2>2 DEF deleteAddress, StoreAddresses
<1>3. ASSUME NEW r \in Requests, SessionNext(r) \/ ResetNext(r) \/ EmailNext(r) \/ DeletionNext(r)
      PROVE  UNCHANGED addressVars \/ deleteCustomerAccount(r)
  BY <1>3, SessionFrame, ResetFrame, EmailFrame, DeletionFrame
<1>4. ASSUME NEW r \in Requests, deleteCustomerAccount(r) PROVE OneDefaultPerRole'
  BY <1>4 DEF deleteCustomerAccount
<1>5. ASSUME NEW s \in SessionIds, ExpireSession(s) PROVE UNCHANGED addressVars
  BY <1>5 DEF ExpireSession
<1>6. CASE UNCHANGED addressVars
  BY <1>6
<1> QED BY <1>1, <1>2, <1>3, <1>4, <1>5, <1>6 DEF AccountsNext, AddressNext, DeletionNext, accountVars

\* Every step keeps the invariant.
LEMMA AccountsNextIInv == AccountsIInv /\ [AccountsNext]_accountVars => AccountsIInv'
BY AccountsNextType, LocksHeldNext, SessionsKeptNext, PasswordGoneNext, TokenFitsNext, OneDefaultNext
   DEF AccountsIInv

\* The inductive invariant: types, locks, sessions, credentials, the erased
\* password, the verification token and the default addresses together.
THEOREM AccountsInductive == AccountsSpec => []AccountsIInv
BY AccountsInitIInv, AccountsNextIInv, PTL DEF AccountsSpec

-----------------------------------------------------------------------------
(* The properties.                                                         *)

\* For any number of rotations and logouts that found one credential, at most one
\* gets its successor.
THEOREM CredentialsFormChains == AccountsSpec => []CredentialRotatesOnce
<1>1. AccountsIInv => CredentialRotatesOnce
  BY DEF AccountsIInv
<1> QED BY <1>1, AccountsInductive, PTL

\* Each role of a non-empty address book has exactly one holder, after any
\* sequence of concurrent creations, updates, deletions and erasures.
THEOREM DefaultsAreUnique == AccountsSpec => []OneDefaultPerRole
<1>1. AccountsIInv => OneDefaultPerRole
  BY DEF AccountsIInv
<1> QED BY <1>1, AccountsInductive, PTL

\* No step renews an ended session.
LEMMA SessionsStayEndedStep == AccountsIInv /\ [AccountsNext]_accountVars => [SessionsStayEnded]_accountVars
<1> SUFFICES ASSUME AccountsIInv, AccountsNext PROVE SessionsStayEnded
  BY DEF accountVars
<1> USE DEF SessionsStayEnded, At, sessionVars
<1>0. AccountsTypeOK /\ LocksHeld /\ SessionsKept
  BY DEF AccountsIInv
<1>1. ASSUME NEW r \in Requests, UNCHANGED <<refreshTokenHash, revoked>>, request[r].step # "loggingOut",
             \A q \in Requests \ {r} : request'[q] = request[q]
      PROVE  SessionsStayEnded
  BY <1>1
<1>2. ASSUME NEW r \in Requests, NEW steps, Moves(r, steps)
      PROVE  \A q \in Requests \ {r} : request'[q] = request[q]
  BY <1>0, <1>2, FinishStep, ProceedStep DEF Moves
<1>3. ASSUME NEW r \in Requests,
             ResetNext(r) \/ EmailNext(r) \/ AddressNext(r) \/ DeletionNext(r) \/ BeginLogin(r)
      PROVE  SessionsStayEnded
  <2>1. /\ UNCHANGED <<refreshTokenHash, revoked>> /\ request[r].step # "loggingOut"
        /\ Moves(r, Steps)
    BY <1>0, <1>3, ResetFrame, EmailFrame, AddressFrame, DeletionFrame DEF BeginLogin, Moves, Steps
  <2> QED BY <1>1, <1>2, <2>1
<1>4. ASSUME NEW r \in Requests, NEW s \in SessionIds, NEW c \in Credentials, createRefreshSession(r, s, c)
      PROVE  SessionsStayEnded
  <2>1. refreshTokenHash[s] = None /\ s \notin revoked
    BY <1>0, <1>4 DEF createRefreshSession, SessionsKept
  <2>2. \A t \in SessionIds \ {s} : refreshTokenHash'[t] = refreshTokenHash[t]
    BY <1>0, <1>4 DEF createRefreshSession, AccountsTypeOK, RowsTypeOK
  <2>3. revoked \subseteq SessionIds
    BY <1>0 DEF AccountsTypeOK, RowsTypeOK
  <2> QED BY <1>2, <1>4, <2>1, <2>2, <2>3 DEF createRefreshSession, Moves
<1>5. ASSUME NEW r \in Requests, NEW c \in Credentials, rotateRefreshSession(r, c)
      PROVE  SessionsStayEnded
  <2>1. \A t \in revoked : refreshTokenHash'[t] = refreshTokenHash[t]
    BY <1>0, <1>5 DEF rotateRefreshSession, StillCurrent, AccountsTypeOK, RowsTypeOK
  <2> QED BY <1>2, <1>5, <2>1 DEF rotateRefreshSession, Moves
<1>6. ASSUME NEW r \in Requests, NEW s \in SessionIds, NEW c \in Credentials,
             DiscoverForRotation(r, s, c) \/ DiscoverForLogout(r, s, c)
      PROVE  SessionsStayEnded
  BY <1>1, <1>2, <1>6 DEF DiscoverForRotation, DiscoverForLogout, Discover, Moves
<1>7. ASSUME NEW r \in Requests, revokeRefreshSession(r) PROVE SessionsStayEnded
  BY <1>2, <1>7 DEF revokeRefreshSession, Moves
<1>8. ASSUME NEW s \in SessionIds, ExpireSession(s) PROVE SessionsStayEnded
  BY <1>8 DEF ExpireSession
<1> QED BY <1>3, <1>4, <1>5, <1>6, <1>7, <1>8 DEF AccountsNext, SessionNext, DeletionNext

\* A logout that found its session ends it, whichever credential the session has
\* by then, and nothing renews an ended session.
THEOREM LogoutIsFinal == AccountsSpec => LogoutEndsSession
BY AccountsInductive, SessionsStayEndedStep, PTL DEF AccountsSpec, LogoutEndsSession

\* No step lets anybody into an erased account.
LEMMA StaysOutStep == AccountsIInv /\ [AccountsNext]_accountVars => [StaysOut]_accountVars
<1> SUFFICES ASSUME AccountsIInv, AccountsNext PROVE StaysOut
  BY DEF accountVars
<1> USE DEF At, sessionVars
<1>0. AccountsTypeOK /\ LocksHeld /\ SessionsKept
  BY DEF AccountsIInv
<1>1. deleted' => passwordHash' = "unusable"
  BY PasswordGoneNext DEF AccountsIInv
<1>2. ASSUME NEW r \in Requests,
             ResetNext(r) \/ EmailNext(r) \/ AddressNext(r) \/ DeletionNext(r) \/ BeginLogin(r)
      PROVE  UNCHANGED refreshTokenHash /\ (deleted => deleted')
  BY <1>0, <1>2, ResetFrame, EmailFrame, AddressFrame, DeletionFrame DEF BeginLogin, deleteCustomerAccount
<1>3. ASSUME NEW r \in Requests, NEW s \in SessionIds, NEW c \in Credentials, createRefreshSession(r, s, c)
      PROVE  /\ UNCHANGED deleted
             /\ \A t \in SessionIds : refreshTokenHash[t] # None => refreshTokenHash'[t] = refreshTokenHash[t]
  BY <1>0, <1>3 DEF createRefreshSession, AccountsTypeOK, RowsTypeOK
<1>4. ASSUME NEW r \in Requests, NEW c \in Credentials, rotateRefreshSession(r, c)
      PROVE  UNCHANGED deleted /\ (deleted => UNCHANGED refreshTokenHash)
  BY <1>4 DEF rotateRefreshSession, StillCurrent
<1>5. ASSUME NEW r \in Requests, NEW s \in SessionIds, NEW c \in Credentials,
             DiscoverForRotation(r, s, c) \/ DiscoverForLogout(r, s, c)
      PROVE  UNCHANGED <<deleted, refreshTokenHash>>
  BY <1>5 DEF DiscoverForRotation, DiscoverForLogout, Discover
<1>6. ASSUME NEW r \in Requests, revokeRefreshSession(r)
      PROVE  UNCHANGED <<deleted, refreshTokenHash>>
  BY <1>6 DEF revokeRefreshSession
<1>7. ASSUME NEW s \in SessionIds, ExpireSession(s)
      PROVE  UNCHANGED <<deleted, refreshTokenHash>>
  BY <1>7 DEF ExpireSession
<1> QED BY <1>1, <1>2, <1>3, <1>4, <1>5, <1>6, <1>7 DEF AccountsNext, SessionNext, DeletionNext, StaysOut

\* An erased account has no usable password and no session is renewed for it,
\* although resets and rotations that began before the erasure finish after it.
THEOREM DeletionIsFinal == AccountsSpec => DeletedStaysOut
BY AccountsInductive, StaysOutStep, PTL DEF AccountsSpec, DeletedStaysOut

\* No step verifies an address the account no longer has.
LEMMA VerifiesCurrentStep == AccountsIInv /\ [AccountsNext]_accountVars => [VerifiesCurrent]_accountVars
<1> SUFFICES ASSUME AccountsIInv, AccountsNext PROVE VerifiesCurrent
  BY DEF accountVars
<1> USE DEF At, emailVars
<1>0. AccountsTypeOK /\ TokenFits /\ LocksHeld
  BY DEF AccountsIInv
<1>1. ASSUME NEW r \in Requests, SessionNext(r) \/ ResetNext(r) \/ AddressNext(r) \/ DeletionNext(r)
      PROVE  UNCHANGED emailVars \/ deleteCustomerAccount(r)
  BY <1>0, <1>1, SessionFrame, ResetFrame, AddressFrame, DeletionFrame
<1>2. ASSUME NEW s \in SessionIds, ExpireSession(s) PROVE UNCHANGED emailVars
  BY <1>2 DEF ExpireSession
<1>3. ASSUME NEW r \in Requests, verifyEmailVerificationToken(r) PROVE VerifiesCurrent
  <2>1. CASE StillVerifies(r)
    <3>1. issuedFor[request[r].presented] = email
      BY <1>0, <1>3, <2>1 DEF verifyEmailVerificationToken, StillVerifies, TokenFits
    <3> QED BY <1>3, <2>1, <3>1 DEF verifyEmailVerificationToken, StillVerifies, VerifiesCurrent
  <2>2. CASE ~StillVerifies(r)
    BY <1>3, <2>2 DEF verifyEmailVerificationToken, VerifiesCurrent
  <2> QED BY <2>1, <2>2
<1>5. ASSUME NEW r \in Requests, BeginResend(r) \/ createOrReplaceEmailVerificationToken(r)
      PROVE  VerifiesCurrent
  BY <1>5 DEF BeginResend, createOrReplaceEmailVerificationToken, VerifiesCurrent
<1>6. ASSUME NEW r \in Requests, deleteCustomerAccount(r) PROVE VerifiesCurrent
  BY <1>0, <1>6 DEF deleteCustomerAccount, LocksHeld, VerifiesCurrent
<1>7. ASSUME NEW r \in Requests, NEW address \in Emails, changeUnverifiedUserEmail(r, address)
      PROVE  VerifiesCurrent
  BY <1>7 DEF changeUnverifiedUserEmail, VerifiesCurrent
<1>8. ASSUME NEW r \in Requests, NEW t \in VerificationTokens, FindVerificationToken(r, t)
      PROVE  VerifiesCurrent
  BY <1>8 DEF FindVerificationToken, VerifiesCurrent
<1> QED BY <1>1, <1>2, <1>3, <1>5, <1>6, <1>7, <1>8 DEF AccountsNext, EmailNext, DeletionNext, VerifiesCurrent

\* An address counts as verified only by a token issued for that address, and a
\* verified address is not changed again except by the erasure.
THEOREM VerificationIsCurrent == AccountsSpec => VerifiedIsCurrent
BY AccountsInductive, VerifiesCurrentStep, PTL DEF AccountsSpec, VerifiedIsCurrent
=============================================================================
