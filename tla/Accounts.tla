------------------------------- MODULE Accounts -------------------------------
(***************************************************************************)
(* Accounts and sessions: the AuthService of the game-service              *)
(* (services/game-service/internal/server/auth.go, pkg/store/auth.go), the *)
(* resolvers of the gateway that turn its answers into session cookies     *)
(* (services/gateway/graph) and browsers that share a cookie between calls.*)
(*                                                                         *)
(* Each call is made once, and its caller chooses a password of its own,   *)
(* which is therefore named after the call.  A guest is named after its    *)
(* id, a name nobody may choose.  Nothing deletes a user.                  *)
(***************************************************************************)
EXTENDS Naturals, FiniteSets

CONSTANTS
    Browsers, Calls, Users, Tokens,
    Spellings,    \* what may be typed as a username or an email
    Fold,         \* lower(...) of each of them
    Mails,        \* the ones with the shape of an address
    None,
    MaxFailed     \* bound: queries that fail and answers that are lost

ASSUME AccountsAssumption ==
    /\ Fold \in [Spellings -> Spellings]
    /\ Mails \subseteq Spellings
    /\ \A s \in Spellings : Fold[s] \in Mails <=> s \in Mails
    /\ None \notin Calls \cup Users \cup Tokens \cup Spellings
    \* Nobody may choose a name that begins with "guest-".
    /\ Users \cap Spellings = {}
    /\ MaxFailed \in Nat

VARIABLES
    users,        \* the row of each account
    tokens,       \* the row of each login token, and its life
    cookie,       \* the claims of each browser's session
    call,
    failed,
    minted        \* history: the sessions handed out, and for what

vars == <<users, tokens, cookie, call, failed, minted>>

NoClaims == [user |-> None, guest |-> FALSE]
NoCall == [pc |-> "new", browser |-> None, via |-> <<>>, user |-> None]

Exists(id) == users[id].name # None

\* Each query may fail, and the handler with it.
Fails == failed < MaxFailed /\ failed' = failed + 1

Send(c, b, pc, via) == call' = [call EXCEPT ![c] = [NoCall EXCEPT !.pc = pc, !.browser = b, !.via = via]]
Goto(c, pc) == call' = [call EXCEPT ![c].pc = pc]
Done(c) == call' = [call EXCEPT ![c] = [NoCall EXCEPT !.pc = "done"]]

--------------------------------------------------------------------------
\* The gateway's mutations, as far as the first query.

LoginAsGuest(c, b) ==
    /\ call[c].pc = "new"
    /\ Send(c, b, "insert", [op |-> "guest"])
    /\ UNCHANGED <<users, tokens, cookie, failed, minted>>

\* Mutant: a username may be somebody's address.
AnyUsername(name) == TRUE

ValidUsername(name) == name \notin Mails
LooksLikeEmail(email) == email \in Mails

\* Only a session that says it is a guest's is upgraded, whatever the account
\* has become since.
Register(c, b, name, email, upgrade) ==
    /\ call[c].pc = "new"
    /\ ValidUsername(name)
    /\ email = None \/ LooksLikeEmail(email)
    /\ LET guest == IF upgrade /\ cookie[b].guest THEN cookie[b].user ELSE None
       IN  Send(c, b, IF guest = None THEN "insert" ELSE "upgrade",
                [op |-> "register", name |-> name, email |-> email, guest |-> guest])
    /\ UNCHANGED <<users, tokens, cookie, failed, minted>>

Login(c, b, identifier, password) ==
    /\ call[c].pc = "new"
    /\ Send(c, b, "login", [op |-> "login", name |-> identifier, password |-> password])
    /\ UNCHANGED <<users, tokens, cookie, failed, minted>>

RequestLoginToken(c, b, email) ==
    /\ call[c].pc = "new"
    /\ Send(c, b, "issue", [op |-> "request", email |-> email])
    /\ UNCHANGED <<users, tokens, cookie, failed, minted>>

RedeemLoginToken(c, b, t) ==
    /\ call[c].pc = "new"
    /\ Send(c, b, "redeem", [op |-> "redeem", token |-> t])
    /\ UNCHANGED <<users, tokens, cookie, failed, minted>>

\* The cookie goes, the session it held stays good.
Logout(c, b) ==
    /\ call[c].pc = "new"
    /\ Done(c)
    /\ cookie' = [cookie EXCEPT ![b] = NoClaims]
    /\ UNCHANGED <<users, tokens, failed, minted>>

--------------------------------------------------------------------------
\* The store.

\* The unique indexes, on lower(username) and on lower(email).
Taken(id, name, email) ==
    \E other \in Users \ {id} :
        /\ Exists(other)
        /\ \/ users[other].name \in Spellings /\ Fold[users[other].name] = Fold[name]
           \/ email # None /\ users[other].email # None /\ Fold[users[other].email] = Fold[email]

\* CreateGuestUser, and Register for somebody new.
Insert(c) ==
    LET via == call[c].via IN
    /\ call[c].pc = "insert"
    /\ \/ \E id \in Users :
            /\ ~Exists(id)
            /\ \/ /\ via.op = "guest"
                  /\ users' = [users EXCEPT ![id] = [name |-> id, email |-> None,
                                                     password |-> None, guest |-> TRUE]]
                  /\ call' = [call EXCEPT ![c].pc = "load", ![c].user = id]
               \/ /\ via.op = "register"
                  /\ ~Taken(id, via.name, via.email)
                  /\ users' = [users EXCEPT ![id] = [name |-> via.name, email |-> via.email,
                                                     password |-> c, guest |-> FALSE]]
                  /\ call' = [call EXCEPT ![c].pc = "load", ![c].user = id]
               \/ via.op = "register" /\ Taken(id, via.name, via.email) /\ Done(c) /\ UNCHANGED users
            /\ UNCHANGED failed
       \/ Fails /\ Done(c) /\ UNCHANGED users
    /\ UNCHANGED <<tokens, cookie, minted>>

\* Mutant: UPDATE ... WHERE id = $4.
UpgradeAnyone(c) ==
    LET via == call[c].via
        id  == via.guest
    IN
    /\ call[c].pc = "upgrade"
    /\ ~Taken(id, via.name, via.email)
    /\ users' = [users EXCEPT ![id] = [name |-> via.name, email |-> via.email,
                                       password |-> c, guest |-> FALSE]]
    /\ call' = [call EXCEPT ![c].pc = "load", ![c].user = id]
    /\ UNCHANGED <<tokens, cookie, failed, minted>>

\* upgradeGuest: UPDATE ... WHERE id = $4 AND is_guest = true.
UpgradeGuest(c) ==
    LET via == call[c].via
        id  == via.guest
    IN
    /\ call[c].pc = "upgrade"
    /\ \/ /\ users[id].guest
          /\ ~Taken(id, via.name, via.email)
          /\ users' = [users EXCEPT ![id] = [name |-> via.name, email |-> via.email,
                                             password |-> c, guest |-> FALSE]]
          /\ call' = [call EXCEPT ![c].pc = "load", ![c].user = id]
          /\ UNCHANGED failed
       \/ /\ ~users[id].guest \/ Taken(id, via.name, via.email)
          /\ Done(c)
          /\ UNCHANGED <<users, failed>>
       \/ Fails /\ Done(c) /\ UNCHANGED users
    /\ UNCHANGED <<tokens, cookie, minted>>

\* FindUserByIdentifier: a row whose username or email it is, LIMIT 1.
Matches(identifier) ==
    {id \in Users : Exists(id) /\
        \E s \in {users[id].name, users[id].email} \cap Spellings : Fold[s] = Fold[identifier]}

\* Login compares the password with the row's, or with a decoy.
CheckPassword(c) ==
    LET via == call[c].via IN
    /\ call[c].pc = "login"
    /\ \/ \E id \in Matches(via.name) :
            /\ users[id].password = via.password
            /\ call' = [call EXCEPT ![c].pc = "respond", ![c].user = id]
            /\ UNCHANGED failed
       \/ /\ Matches(via.name) = {} \/ \E id \in Matches(via.name) : users[id].password # via.password
          /\ Done(c)
          /\ UNCHANGED failed
       \/ Fails /\ Done(c)
    /\ UNCHANGED <<users, tokens, cookie, minted>>

\* NewLoginToken: only an account with an address gets one, any other request
\* is answered with a decoy that redeems nothing.
NewLoginToken(c) ==
    LET email == call[c].via.email IN
    /\ call[c].pc = "issue"
    /\ Done(c)
    /\ \/ \E id \in Matches(email), t \in Tokens :
            /\ users[id].email # None
            /\ tokens[t].user = None
            /\ tokens' = [tokens EXCEPT ![t] = [user |-> id, consumed |-> FALSE, expired |-> FALSE]]
            /\ UNCHANGED failed
       \/ /\ \A id \in Matches(email) : users[id].email = None
          /\ UNCHANGED <<tokens, failed>>
       \/ Fails /\ UNCHANGED tokens
    /\ UNCHANGED <<users, cookie, minted>>

\* RedeemLoginToken: UPDATE ... WHERE consumed_at IS NULL AND expires_at > now().
ConsumeToken(c) ==
    LET t == call[c].via.token IN
    /\ call[c].pc = "redeem"
    /\ \/ /\ tokens[t].user # None /\ ~tokens[t].consumed /\ ~tokens[t].expired
          /\ tokens' = [tokens EXCEPT ![t].consumed = TRUE]
          /\ call' = [call EXCEPT ![c].pc = "load", ![c].user = tokens[t].user]
          /\ UNCHANGED failed
       \/ /\ tokens[t].user = None \/ tokens[t].consumed \/ tokens[t].expired
          /\ Done(c)
          /\ UNCHANGED <<tokens, failed>>
       \/ Fails /\ Done(c) /\ UNCHANGED tokens
    /\ UNCHANGED <<users, cookie, minted>>

\* GetUser, in a statement of its own: what was written before stays written
\* when it fails.
LoadUser(c) ==
    /\ call[c].pc = "load"
    /\ \/ Goto(c, "respond") /\ UNCHANGED failed
       \/ Fails /\ Done(c)
    /\ UNCHANGED <<users, tokens, cookie, minted>>

--------------------------------------------------------------------------

\* startSession: the claims are the row as it was read.  The answer may be lost
\* on its way to the browser.
StartSession(c) ==
    LET id == call[c].user
        b  == call[c].browser
    IN
    /\ call[c].pc = "respond"
    /\ Done(c)
    /\ minted' = minted \cup {[user |-> id, by |-> c, via |-> call[c].via]}
    /\ \/ cookie' = [cookie EXCEPT ![b] = [user |-> id, guest |-> users[id].guest]] /\ UNCHANGED failed
       \/ Fails /\ UNCHANGED cookie
    /\ UNCHANGED <<users, tokens>>

\* Fifteen minutes pass.
Expire(t) ==
    /\ tokens[t].user # None
    /\ ~tokens[t].expired
    /\ tokens' = [tokens EXCEPT ![t].expired = TRUE]
    /\ UNCHANGED <<users, cookie, call, failed, minted>>

Init ==
    /\ users = [id \in Users |-> [name |-> None, email |-> None, password |-> None, guest |-> FALSE]]
    /\ tokens = [t \in Tokens |-> [user |-> None, consumed |-> FALSE, expired |-> FALSE]]
    /\ cookie = [b \in Browsers |-> NoClaims]
    /\ call = [c \in Calls |-> NoCall]
    /\ failed = 0
    /\ minted = {}

Ask(c, b) ==
    \/ LoginAsGuest(c, b)
    \/ \E name \in Spellings, email \in Mails \cup {None}, upgrade \in BOOLEAN :
            Register(c, b, name, email, upgrade)
    \/ \E identifier \in Spellings, password \in Calls : Login(c, b, identifier, password)
    \/ \E email \in Spellings : RequestLoginToken(c, b, email)
    \/ \E t \in Tokens : RedeemLoginToken(c, b, t)
    \/ Logout(c, b)

Serve(c) ==
    \/ Insert(c) \/ UpgradeGuest(c) \/ CheckPassword(c)
    \/ NewLoginToken(c) \/ ConsumeToken(c) \/ LoadUser(c) \/ StartSession(c)

Next ==
    \/ \E c \in Calls, b \in Browsers : Ask(c, b)
    \/ \E c \in Calls : Serve(c)
    \/ \E t \in Tokens : Expire(t)

Spec == Init /\ [][Next]_vars

--------------------------------------------------------------------------

\* What a player types to sign in names one account at most, however it is
\* capitalised, and whether it is somebody's username or somebody's email: the
\* LIMIT 1 of FindUserByIdentifier never chooses, also when registrations and
\* upgrades race.
OneAccountPerIdentifier == \A s \in Spellings : Cardinality(Matches(s)) <= 1

\* Every session was earned, and what earned it still holds: registering left
\* the account with this name and password for good, in place of the guest it
\* was asked to upgrade; a password session belongs to the account that has the
\* name and the password; a token is good for one session, its owner's.
SessionsEarned ==
    \A s \in minted :
        LET account == users[s.user] IN
        CASE s.via.op = "register" ->
                /\ account.name = s.via.name /\ account.email = s.via.email
                /\ account.password = s.by
                /\ s.via.guest \in {None, s.user}
          [] s.via.op = "login" ->
                s.user \in Matches(s.via.name) /\ account.password = s.via.password
          [] s.via.op = "redeem" ->
                /\ tokens[s.via.token].user = s.user
                /\ \A r \in minted : r.via = s.via => r.by = s.by
          [] OTHER -> account.guest \/ account.password \in Calls
=============================================================================
