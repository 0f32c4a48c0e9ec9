---------------------------- MODULE AdminAccess -----------------------------
(***************************************************************************)
(* Tokens, logins and administrator queries over time: JwtAuth.h decides   *)
(* which login is accepted, AdminQueries.h and the message handler what a  *)
(* connected character may ask.  Time is the clock of the chat server in   *)
(* seconds; the clock of the game server that issues the tokens may be     *)
(* wrong by up to Skew seconds.                                            *)
(*                                                                         *)
(* A login whose message or token is malformed, or whose token nobody      *)
(* issued, is refused and changes nothing here: format, algorithm, issuer, *)
(* audience and signature are what being in issued stands for, and so is   *)
(* the range of iat and exp, which keeps the sums below from overflowing.  *)
(* Tokens carry no nbf claim.                                              *)
(***************************************************************************)
EXTENDS Integers, FiniteSets

CONSTANTS
    Characters,     \* the names that tokens are issued for
    NoSession,      \* a character that is not connected
    JwtTolerance,   \* seconds by which the two clocks may differ (30)
    Skew,           \* how far the issuer's clock is off at most
    Lifetimes,      \* the possible differences between exp and iat
    MaxTokens,      \* bound of the model: tokens issued
    MaxNow          \* bound of the model: the last second looked at

ASSUME AdminAssumption ==
    /\ JwtTolerance \in Nat /\ Skew \in 0 .. JwtTolerance
    /\ Lifetimes \subseteq Nat \ {0}
    /\ MaxTokens \in Nat /\ MaxNow \in Nat

VARIABLES
    now,        \* the clock of the chat server
    issued,     \* the tokens issued so far
    sessions,   \* what PerSocketData keeps of each connected character's login
    answer,     \* the last answer to an administrator's request, and when it was given
    refused     \* history: the characters answered Forbidden since their last login
vars == <<now, issued, sessions, answer, refused>>

NoAnswer == [Recipient |-> NoSession, code |-> "none", at |-> 0]

Init ==
    /\ now = 0
    /\ issued = {}
    /\ sessions = [n \in Characters |-> NoSession]
    /\ answer = NoAnswer
    /\ refused = {}

\* The game server or the token tool signs a token, with or without the role
\* chat_admin.
Issue(n, offset, lifetime, admin) ==
    /\ Cardinality(issued) < MaxTokens
    /\ now + offset >= 0
    /\ issued' = issued \cup {[characterName |-> n, iat |-> now + offset,
                               exp |-> now + offset + lifetime, isAdmin |-> admin]}
    /\ UNCHANGED <<now, sessions, answer, refused>>

\* Mutation of VerifyLogin: no tolerance for tokens from the future.
VerifyLoginStrict(token, name, t) ==
    /\ token.exp > token.iat
    /\ t < token.exp + JwtTolerance
    /\ t >= token.iat
    /\ name = token.characterName

\* Whether a token in issued lets a client log in under this name at time t.
VerifyLogin(token, name, t) ==
    /\ token.exp > token.iat
    /\ t < token.exp + JwtTolerance
    /\ t >= token.iat - JwtTolerance
    /\ name = token.characterName

\* A login, which also replaces an earlier connection of the character.
HandleConnect(token, n) ==
    /\ VerifyLogin(token, n, now)
    /\ sessions' = [sessions EXCEPT ![n] = [isAdmin |-> token.isAdmin, adminExpiresAt |-> token.exp]]
    /\ refused' = refused \ {n}
    /\ UNCHANGED <<now, issued, answer>>

Disconnect(n) ==
    /\ sessions[n] # NoSession
    /\ sessions' = [sessions EXCEPT ![n] = NoSession]
    /\ UNCHANGED <<now, issued, answer, refused>>

\* Mutations of MayAdminister: permission lasts as long as the connection, and
\* the comparison the wrong way round.
AdminForLife(n) == sessions[n].isAdmin
AdminAfterExpiry(n) == sessions[n].isAdmin /\ now >= sessions[n].adminExpiresAt

\* The tolerance does not extend an administrator's permission.
MayAdminister(n) == sessions[n].isAdmin /\ now < sessions[n].adminExpiresAt

Answer(n, code) ==
    /\ answer' = [Recipient |-> n, code |-> code, at |-> now]
    /\ refused' = IF code = "Forbidden" THEN refused \cup {n} ELSE refused
    /\ UNCHANGED <<now, issued, sessions>>

\* A query type, or a response type sent as a request; empty says whether both
\* the recipient and the message are.  Nothing is collected before permission
\* and form have been checked.
AnswerAdminQuery(n, isQuery, empty) ==
    /\ sessions[n] # NoSession
    /\ Answer(n, CASE ~MayAdminister(n) -> "Forbidden"
                   [] MayAdminister(n) /\ ~(isQuery /\ empty) -> "InvalidQuery"
                   [] OTHER -> "AdminInfo")

\* A Tell that begins with DEBUG writes the server's state to its log.
DebugTell(n) ==
    /\ sessions[n] # NoSession
    /\ Answer(n, IF MayAdminister(n) THEN "Logged" ELSE "Forbidden")

\* One second passes, as far as the model follows the clock.
Second ==
    /\ now' = IF now < MaxNow THEN now + 1 ELSE now
    /\ UNCHANGED <<issued, sessions, answer, refused>>

Next ==
    \/ \E n \in Characters :
          \/ \E offset \in -Skew .. Skew, lifetime \in Lifetimes, admin \in BOOLEAN :
                Issue(n, offset, lifetime, admin)
          \/ \E token \in issued : HandleConnect(token, n)
          \/ Disconnect(n)
          \/ \E isQuery, empty \in BOOLEAN : AnswerAdminQuery(n, isQuery, empty)
          \/ DebugTell(n)
    \/ Second

Spec == Init /\ [][Next]_vars

-----------------------------------------------------------------------------

Disclosing == {"AdminInfo", "Logged"}

\* State of the server is only ever disclosed to a character for which a token
\* with the role chat_admin exists that has not expired at that time, not even
\* by the tolerance and however old the connection is.
AdminNeedsLiveToken ==
    answer.code \in Disclosing =>
        \E token \in issued :
            token.characterName = answer.Recipient /\ token.isAdmin /\ answer.at < token.exp

\* Once a connection has been answered Forbidden, only a new login changes that.
ForbiddenUntilReconnect ==
    [][answer' # answer /\ answer'.code \in Disclosing => answer'.Recipient \notin refused]_vars

\* The tolerance covers the difference of the clocks: a token can be used from
\* the moment it is issued until it expires.
FreshTokensAreAccepted ==
    \A token \in issued : now < token.exp => VerifyLogin(token, token.characterName, now)

=============================================================================
