------------------------- MODULE AdminAccessProofs --------------------------
(***************************************************************************)
(* Proofs about AdminAccess for any characters, tolerance and lifetimes.   *)
(* The invariant traces every permission to a token: each connection holds *)
(* the rights and the expiry of a token issued for its character, and no   *)
(* token is further in the future than the issuer's clock can be off.      *)
(***************************************************************************)
EXTENDS AdminAccess, TLAPS

Token == [characterName : Characters, iat : Int, exp : Int, isAdmin : BOOLEAN]

TokensOK ==
    /\ issued \subseteq Token
    /\ \A token \in issued : token.iat < token.exp /\ token.iat <= now + Skew

Backed(n) ==
    \E token \in issued :
        /\ token.characterName = n
        /\ token.isAdmin = sessions[n].isAdmin
        /\ token.exp = sessions[n].adminExpiresAt

SessionsBacked == \A n \in Characters : sessions[n] # NoSession => Backed(n)

AdminInv ==
    /\ now \in Nat
    /\ DOMAIN sessions = Characters
    /\ TokensOK
    /\ SessionsBacked
    /\ AdminNeedsLiveToken

-----------------------------------------------------------------------------

\* The first step of the induction: initially nothing is issued or disclosed.
LEMMA AdminInvInit == Init => AdminInv
  BY DEF Init, AdminInv, TokensOK, SessionsBacked, AdminNeedsLiveToken, NoAnswer, Disclosing

\* Signing a token keeps what earlier tokens back.
LEMMA IssueKeeps ==
    ASSUME AdminInv, NEW n \in Characters, NEW offset \in -Skew .. Skew,
           NEW lifetime \in Lifetimes, NEW admin \in BOOLEAN, Issue(n, offset, lifetime, admin)
    PROVE  AdminInv'
  <1> DEFINE new == [characterName |-> n, iat |-> now + offset,
                     exp |-> now + offset + lifetime, isAdmin |-> admin]
  <1> USE DEF Issue
  <1>1. issued' = issued \cup {new} /\ now' = now /\ sessions' = sessions /\ answer' = answer
    OBVIOUS
  <1>2. /\ now \in Nat /\ Skew \in Nat /\ lifetime \in Nat \ {0} /\ offset \in Int
        /\ offset <= Skew
    BY AdminAssumption DEF AdminInv
  <1>3. new \in Token /\ new.iat < new.exp /\ new.iat <= now + Skew
    BY <1>2 DEF Token
  <1>4. TokensOK'
    BY <1>1, <1>3 DEF AdminInv, TokensOK
  <1>5. SessionsBacked'
    BY <1>1 DEF AdminInv, SessionsBacked, Backed
  <1>6. AdminNeedsLiveToken'
    BY <1>1 DEF AdminInv, AdminNeedsLiveToken
  <1>7. QED
    BY <1>1, <1>4, <1>5, <1>6 DEF AdminInv

\* A login takes its rights and expiry from a token of its own character.
LEMMA HandleConnectKeeps ==
    ASSUME AdminInv, NEW n \in Characters, NEW token \in issued, HandleConnect(token, n)
    PROVE  AdminInv'
  <1>1. /\ token.characterName = n
        /\ sessions' = [sessions EXCEPT ![n] = [isAdmin |-> token.isAdmin, adminExpiresAt |-> token.exp]]
        /\ now' = now /\ issued' = issued /\ answer' = answer
    BY DEF HandleConnect, VerifyLogin
  <1>2. DOMAIN sessions' = Characters /\ DOMAIN sessions = Characters
    BY <1>1 DEF AdminInv
  <1>3. SessionsBacked'
    <2> SUFFICES ASSUME NEW m \in Characters, sessions'[m] # NoSession
                 PROVE  Backed(m)'
      BY DEF SessionsBacked
    <2>1. CASE m = n
      BY <2>1, <1>1, <1>2 DEF Backed
    <2>2. CASE m # n
      <3>1. sessions'[m] = sessions[m]
        BY <2>2, <1>1, <1>2
      <3>2. Backed(m)
        BY <3>1 DEF AdminInv, SessionsBacked
      <3>3. QED
        BY <3>1, <3>2, <1>1 DEF Backed
    <2>3. QED
      BY <2>1, <2>2
  <1>4. TokensOK' /\ AdminNeedsLiveToken'
    BY <1>1 DEF AdminInv, TokensOK, AdminNeedsLiveToken
  <1>5. QED
    BY <1>1, <1>2, <1>3, <1>4 DEF AdminInv

\* An answer discloses something only while the token behind the connection
\* has not expired.
LEMMA AnswerKeeps ==
    ASSUME AdminInv, NEW n \in Characters, NEW code, sessions[n] # NoSession, Answer(n, code),
           code \in Disclosing => MayAdminister(n)
    PROVE  AdminInv'
  <1>1. /\ answer' = [Recipient |-> n, code |-> code, at |-> now]
        /\ now' = now /\ issued' = issued /\ sessions' = sessions
    BY DEF Answer
  <1>2. AdminNeedsLiveToken'
    <2> SUFFICES ASSUME code \in Disclosing
                 PROVE  \E token \in issued :
                            token.characterName = n /\ token.isAdmin /\ now < token.exp
      BY <1>1 DEF AdminNeedsLiveToken
    <2>1. PICK token \in issued : /\ token.characterName = n
                                  /\ token.isAdmin = sessions[n].isAdmin
                                  /\ token.exp = sessions[n].adminExpiresAt
      BY DEF AdminInv, SessionsBacked, Backed
    <2>2. QED
      BY <2>1 DEF MayAdminister
  <1>3. TokensOK' /\ SessionsBacked'
    BY <1>1 DEF AdminInv, TokensOK, SessionsBacked, Backed
  <1>4. QED
    BY <1>1, <1>2, <1>3 DEF AdminInv

\* The second step of the induction, by the action taken.
LEMMA AdminInvStep == AdminInv /\ [Next]_vars => AdminInv'
  <1> SUFFICES ASSUME AdminInv, [Next]_vars
               PROVE  AdminInv'
    OBVIOUS
  <1>1. ASSUME NEW n \in Characters, NEW offset \in -Skew .. Skew, NEW lifetime \in Lifetimes,
               NEW admin \in BOOLEAN, Issue(n, offset, lifetime, admin)
        PROVE  AdminInv'
    BY <1>1, IssueKeeps
  <1>2. ASSUME NEW n \in Characters, NEW token \in issued, HandleConnect(token, n)
        PROVE  AdminInv'
    BY <1>2, HandleConnectKeeps
  <1>3. ASSUME NEW n \in Characters, Disconnect(n)
        PROVE  AdminInv'
    BY <1>3 DEF Disconnect, AdminInv, TokensOK, SessionsBacked, Backed, AdminNeedsLiveToken
  <1>4. ASSUME NEW n \in Characters, NEW isQuery \in BOOLEAN, NEW empty \in BOOLEAN,
               AnswerAdminQuery(n, isQuery, empty)
        PROVE  AdminInv'
    <2> DEFINE code == CASE ~MayAdminister(n) -> "Forbidden"
                         [] MayAdminister(n) /\ ~(isQuery /\ empty) -> "InvalidQuery"
                         [] OTHER -> "AdminInfo"
    <2>1. sessions[n] # NoSession /\ Answer(n, code)
      BY <1>4 DEF AnswerAdminQuery
    <2>2. code \in Disclosing => MayAdminister(n)
      BY DEF Disclosing
    <2>3. QED
      BY <2>1, <2>2, AnswerKeeps
  <1>5. ASSUME NEW n \in Characters, DebugTell(n)
        PROVE  AdminInv'
    <2> DEFINE code == IF MayAdminister(n) THEN "Logged" ELSE "Forbidden"
    <2>1. sessions[n] # NoSession /\ Answer(n, code)
      BY <1>5 DEF DebugTell
    <2>2. code \in Disclosing => MayAdminister(n)
      BY DEF Disclosing
    <2>3. QED
      BY <2>1, <2>2, AnswerKeeps
  <1>6. ASSUME Second
        PROVE  AdminInv'
    <2>1. now' \in Nat /\ now <= now' /\ issued' = issued /\ sessions' = sessions /\ answer' = answer
      BY <1>6 DEF Second, AdminInv
    <2>2. TokensOK'
      <3> SUFFICES ASSUME NEW token \in issued
                   PROVE  token \in Token /\ token.iat < token.exp /\ token.iat <= now' + Skew
        BY <2>1 DEF TokensOK
      <3>1. token \in Token /\ token.iat < token.exp /\ token.iat <= now + Skew
        BY DEF AdminInv, TokensOK
      <3>2. QED
        BY <3>1, <2>1, AdminAssumption DEF Token, AdminInv
    <2>3. SessionsBacked' /\ AdminNeedsLiveToken'
      BY <2>1 DEF AdminInv, SessionsBacked, Backed, AdminNeedsLiveToken
    <2>4. QED
      BY <2>1, <2>2, <2>3 DEF AdminInv
  <1>7. CASE UNCHANGED vars
    BY <1>7 DEF vars, AdminInv, TokensOK, SessionsBacked, Backed, AdminNeedsLiveToken
  <1>8. QED
    BY <1>1, <1>2, <1>3, <1>4, <1>5, <1>6, <1>7 DEF Next

\* Every connection's rights come from a token issued for its character, in
\* every reachable state (what HandleConnect copies into PerSocketData).
THEOREM RightsAreBacked == Spec => []AdminInv
  BY AdminInvInit, AdminInvStep, PTL DEF Spec

\* State of the server is only disclosed to a character with an administrator's
\* token that has not expired, for every lifetime, tolerance and number of tokens.
THEOREM AdminAlwaysNeedsLiveToken == Spec => []AdminNeedsLiveToken
  <1>1. AdminInv => AdminNeedsLiveToken
    BY DEF AdminInv
  <1>2. QED
    BY <1>1, RightsAreBacked, PTL

\* A token works from the moment it is issued until it expires, whenever the
\* tolerance is at least the difference of the clocks.
THEOREM FreshTokensAlwaysAccepted == Spec => []FreshTokensAreAccepted
  <1>1. AdminInv => FreshTokensAreAccepted
    <2> SUFFICES ASSUME AdminInv, NEW token \in issued, now < token.exp
                 PROVE  VerifyLogin(token, token.characterName, now)
      BY DEF FreshTokensAreAccepted
    <2>1. /\ token.iat \in Int /\ token.exp \in Int /\ now \in Nat
          /\ token.iat < token.exp /\ token.iat <= now + Skew
      BY DEF AdminInv, TokensOK, Token
    <2>2. JwtTolerance \in Nat /\ Skew \in Nat /\ Skew <= JwtTolerance
      BY AdminAssumption
    <2>3. QED
      BY <2>1, <2>2 DEF VerifyLogin
  <1>2. QED
    BY <1>1, RightsAreBacked, PTL

-----------------------------------------------------------------------------
\* A character that has been refused has no connection that may administer: time only
\* takes permissions away, and a login starts anew.
RefusedStay ==
    /\ refused \subseteq Characters
    /\ \A n \in refused : sessions[n] # NoSession => ~MayAdminister(n)

\* Only logins give a refused character a permission, and they forget the refusal.
LEMMA RefusedStayStep ==
    ASSUME AdminInv, RefusedStay, [Next]_vars
    PROVE  RefusedStay'
  <1>1. ASSUME NEW n \in Characters, NEW token \in issued, HandleConnect(token, n)
        PROVE  RefusedStay'
    <2>1. /\ refused' = refused \ {n} /\ now' = now
          /\ \A m \in Characters \ {n} : sessions'[m] = sessions[m]
      BY <1>1 DEF HandleConnect, AdminInv
    <2> QED BY <2>1 DEF RefusedStay, MayAdminister
  <1>2. ASSUME NEW n \in Characters, Disconnect(n)
        PROVE  RefusedStay'
    <2>1. /\ refused' = refused /\ now' = now
          /\ sessions'[n] = NoSession
          /\ \A m \in Characters \ {n} : sessions'[m] = sessions[m]
      BY <1>2 DEF Disconnect, AdminInv
    <2> QED BY <2>1 DEF RefusedStay, MayAdminister
  <1>3. ASSUME NEW n \in Characters, NEW code, Answer(n, code),
               code = "Forbidden" => ~MayAdminister(n)
        PROVE  RefusedStay'
    <2>1. /\ UNCHANGED <<now, sessions>>
          /\ refused' = IF code = "Forbidden" THEN refused \cup {n} ELSE refused
      BY <1>3 DEF Answer
    <2> QED BY <1>3, <2>1 DEF RefusedStay, MayAdminister
  <1>4. ASSUME Second
        PROVE  RefusedStay'
    <2>1. now \in Nat /\ now' \in Nat /\ now <= now' /\ UNCHANGED <<sessions, refused>>
      BY <1>4, SMT DEF Second, AdminInv
    <2> SUFFICES ASSUME NEW n \in refused, sessions[n] # NoSession, sessions[n].isAdmin,
                        now' < sessions[n].adminExpiresAt
                 PROVE  FALSE
      BY <2>1 DEF RefusedStay, MayAdminister
    <2>2. sessions[n].adminExpiresAt \in Int
      <3>1. PICK token \in issued : token.exp = sessions[n].adminExpiresAt
        BY DEF RefusedStay, AdminInv, SessionsBacked, Backed
      <3> QED BY <3>1 DEF AdminInv, TokensOK, Token
    <2>3. ~(now < sessions[n].adminExpiresAt)
      BY DEF RefusedStay, MayAdminister
    <2> QED BY <2>1, <2>2, <2>3, SMT
  <1>5. ASSUME NEW n \in Characters, NEW isQuery \in BOOLEAN, NEW empty \in BOOLEAN,
               AnswerAdminQuery(n, isQuery, empty)
        PROVE  RefusedStay'
    <2> DEFINE code == CASE ~MayAdminister(n) -> "Forbidden"
                         [] MayAdminister(n) /\ ~(isQuery /\ empty) -> "InvalidQuery"
                         [] OTHER -> "AdminInfo"
    <2>1. Answer(n, code) /\ (code = "Forbidden" => ~MayAdminister(n))
      BY <1>5 DEF AnswerAdminQuery
    <2> HIDE DEF code
    <2> QED BY <1>3, <2>1
  <1>6. ASSUME NEW n \in Characters, DebugTell(n)
        PROVE  RefusedStay'
    <2> DEFINE code == IF MayAdminister(n) THEN "Logged" ELSE "Forbidden"
    <2>1. Answer(n, code) /\ (code = "Forbidden" => ~MayAdminister(n))
      BY <1>6 DEF DebugTell
    <2> HIDE DEF code
    <2> QED BY <1>3, <2>1
  <1>7. ASSUME NEW n \in Characters, NEW offset \in -Skew .. Skew, NEW lifetime \in Lifetimes,
               NEW admin \in BOOLEAN, Issue(n, offset, lifetime, admin)
        PROVE  RefusedStay'
    BY <1>7 DEF Issue, RefusedStay, MayAdminister
  <1>8. CASE UNCHANGED vars
    BY <1>8 DEF vars, RefusedStay, MayAdminister
  <1> QED BY <1>1, <1>2, <1>4, <1>5, <1>6, <1>7, <1>8 DEF Next

\* The permission check of the message handler never lets a connection in again that
\* it has refused once: only a new login with another token does.
THEOREM AlwaysForbiddenUntilReconnect == Spec => ForbiddenUntilReconnect
  <1> DEFINE StaysOut == answer' # answer /\ answer'.code \in Disclosing
                            => answer'.Recipient \notin refused
  <1>1. Init => RefusedStay
    BY DEF Init, RefusedStay
  <1>2. AdminInv /\ RefusedStay /\ [Next]_vars => RefusedStay'
    BY RefusedStayStep
  <1>3. RefusedStay /\ [Next]_vars => [StaysOut]_vars
    <2> SUFFICES ASSUME RefusedStay, Next, answer' # answer, answer'.code \in Disclosing
                 PROVE  answer'.Recipient \notin refused
      OBVIOUS
    <2>1. ASSUME NEW n \in Characters, NEW isQuery \in BOOLEAN, NEW empty \in BOOLEAN,
                 AnswerAdminQuery(n, isQuery, empty)
          PROVE  answer'.Recipient \notin refused
      <3>1. /\ sessions[n] # NoSession /\ answer'.Recipient = n
            /\ ~MayAdminister(n) => answer'.code = "Forbidden"
        BY <2>1 DEF AnswerAdminQuery, Answer
      <3> QED BY <3>1 DEF RefusedStay, Disclosing
    <2>2. ASSUME NEW n \in Characters, DebugTell(n)
          PROVE  answer'.Recipient \notin refused
      <3>1. /\ sessions[n] # NoSession /\ answer'.Recipient = n
            /\ ~MayAdminister(n) => answer'.code = "Forbidden"
        BY <2>2 DEF DebugTell, Answer
      <3> QED BY <3>1 DEF RefusedStay, Disclosing
    <2> QED BY <2>1, <2>2 DEF Next, Issue, HandleConnect, Disconnect, Second
  <1> QED BY <1>1, <1>2, <1>3, RightsAreBacked, PTL DEF Spec, ForbiddenUntilReconnect

=============================================================================
