---------------------------- MODULE AccountsProofs ----------------------------
(***************************************************************************)
(* Proofs about the accounts of any number of browsers and calls: what is  *)
(* typed to sign in names one account at most, and every session was       *)
(* earned.                                                                 *)
(***************************************************************************)
EXTENDS Accounts, FiniteSetTheorems, TLAPS

-----------------------------------------------------------------------------
(* The inductive invariant. *)

Rows == [name : Spellings \cup Users \cup {None}, email : Mails \cup {None},
         password : Calls \cup {None}, guest : BOOLEAN]
TokenRows == [user : Users \cup {None}, consumed : BOOLEAN, expired : BOOLEAN]
Claims == [user : Users \cup {None}, guest : BOOLEAN]

\* What a call asked for.
Guests == [op : {"guest"}]
Registers == [op : {"register"}, name : Spellings \ Mails, email : Mails \cup {None},
              guest : Users \cup {None}]
Logins == [op : {"login"}, name : Spellings, password : Calls]
Requests == [op : {"request"}, email : Spellings]
Redeems == [op : {"redeem"}, token : Tokens]
Vias == Guests \cup Registers \cup Logins \cup Redeems

CallStates == [pc : {"new", "insert", "upgrade", "login", "issue", "redeem", "load", "respond", "done"},
               browser : Browsers \cup {None}, via : {<<>>} \cup Vias \cup Requests,
               user : Users \cup {None}]

TypeOK ==
    /\ users \in [Users -> Rows]
    /\ tokens \in [Tokens -> TokenRows]
    /\ cookie \in [Browsers -> Claims]
    /\ call \in [Calls -> CallStates]
    /\ failed \in Nat
    /\ minted \subseteq [user : Users, by : Calls, via : Vias]

\* A session is about to be handed out for the call.
Working(c) == call[c].pc \in {"load", "respond"}

\* A call knows what the statement it has come to needs.
CallKnows(c) ==
    /\ call[c].pc = "insert" => call[c].via \in Guests
                                \/ (call[c].via \in Registers /\ call[c].via.guest = None)
    /\ call[c].pc = "upgrade" => call[c].via \in Registers /\ call[c].via.guest \in Users
    /\ call[c].pc = "login" => call[c].via \in Logins
    /\ call[c].pc = "issue" => call[c].via \in Requests
    /\ call[c].pc = "redeem" => call[c].via \in Redeems
    /\ Working(c) => call[c].via \in Vias /\ call[c].user \in Users
    /\ call[c].pc \notin {"new", "done"} => call[c].browser \in Browsers

CallsKnow == \A c \in Calls : CallKnows(c)

CookiesNamed == \A b \in Browsers : cookie[b].guest => cookie[b].user \in Users

\* A row is a guest's, who has the name of its id and no address, or has a name
\* that is no address, and a password.
RowSound(id) ==
    /\ users[id].guest => users[id].name = id /\ users[id].email = None
                          /\ users[id].password = None
    /\ ~users[id].guest /\ Exists(id) =>
           users[id].name \in Spellings \ Mails /\ users[id].password \in Calls
    /\ ~Exists(id) => users[id].email = None /\ users[id].password = None

\* The unique indexes hold.
Distinct(i, j) ==
    /\ users[i].name \in Spellings /\ users[j].name \in Spellings =>
           Fold[users[i].name] # Fold[users[j].name]
    /\ users[i].email # None /\ users[j].email # None =>
           Fold[users[i].email] # Fold[users[j].email]

RowsSound ==
    /\ \A id \in Users : RowSound(id)
    /\ \A i, j \in Users : i # j => Distinct(i, j)

\* What earns a session, and lasts.
Earned(id, by, via) ==
    /\ Exists(id)
    /\ via.op = "register" =>
           /\ users[id].name = via.name /\ users[id].email = via.email
           /\ users[id].password = by
           /\ via.guest \in {None, id}
    /\ via.op = "login" => id \in Matches(via.name) /\ users[id].password = via.password
    /\ via.op = "redeem" => tokens[via.token].user = id /\ tokens[via.token].consumed

SessionsSound ==
    /\ \A s \in minted : Earned(s.user, s.by, s.via)
    /\ \A c \in Calls : Working(c) => Earned(call[c].user, c, call[c].via)

\* A token is somebody's who exists, and serves one call.
TokensNamed == \A t \in Tokens : tokens[t].user # None => Exists(tokens[t].user)

SameToken(v, w) == v.op = "redeem" /\ w.op = "redeem" /\ v.token = w.token

TokensOnce ==
    /\ \A c, d \in Calls : Working(c) /\ Working(d) /\ SameToken(call[c].via, call[d].via) => c = d
    /\ \A c \in Calls, s \in minted : Working(c) => ~SameToken(call[c].via, s.via)
    /\ \A r, s \in minted : SameToken(r.via, s.via) => r.by = s.by

IInv ==
    /\ TypeOK
    /\ CallsKnow
    /\ CookiesNamed
    /\ RowsSound
    /\ SessionsSound
    /\ TokensNamed
    /\ TokensOnce

-----------------------------------------------------------------------------
(* What a step does to the calls. *)

Pcs == {"new", "insert", "upgrade", "login", "issue", "redeem", "load", "respond", "done"}

\* The calls other than c stay as they are.
OnlyCall(c) == \A d \in Calls : d # c => call'[d] = call[d]

\* A call is sent, ends, learns whose session it is for, or goes on.
LEMMA NoCallTyped == NoCall \in CallStates
  BY DEF NoCall, CallStates

LEMMA CallSent ==
    ASSUME TypeOK, NEW c \in Calls, NEW b \in Browsers, NEW pc \in Pcs,
           NEW via \in Vias \cup Requests, Send(c, b, pc, via)
    PROVE  /\ call' \in [Calls -> CallStates] /\ OnlyCall(c)
           /\ call'[c].pc = pc /\ call'[c].via = via /\ call'[c].browser = b
<1> DEFINE new == [NoCall EXCEPT !.pc = pc, !.browser = b, !.via = via]
<1>1. new \in CallStates
  BY NoCallTyped DEF CallStates, Pcs
<1>2. new.pc = pc /\ new.via = via /\ new.browser = b
  BY DEF NoCall
<1>3. call' = [call EXCEPT ![c] = new]
  BY DEF Send
<1> HIDE DEF new
<1>4. QED
  BY <1>1, <1>2, <1>3 DEF TypeOK, OnlyCall

LEMMA CallDone ==
    ASSUME TypeOK, NEW c \in Calls, Done(c)
    PROVE  /\ call' \in [Calls -> CallStates] /\ OnlyCall(c) /\ call'[c].pc = "done"
<1> DEFINE new == [NoCall EXCEPT !.pc = "done"]
<1>1. new \in CallStates
  BY NoCallTyped DEF CallStates
<1>2. new.pc = "done"
  BY DEF NoCall
<1>3. call' = [call EXCEPT ![c] = new]
  BY DEF Done
<1> HIDE DEF new
<1>4. QED
  BY <1>1, <1>2, <1>3 DEF TypeOK, OnlyCall

LEMMA CallNamed ==
    ASSUME TypeOK, NEW c \in Calls, NEW pc \in Pcs, NEW id \in Users,
           call' = [call EXCEPT ![c].pc = pc, ![c].user = id]
    PROVE  /\ call' \in [Calls -> CallStates] /\ OnlyCall(c)
           /\ call'[c].pc = pc /\ call'[c].user = id
           /\ call'[c].via = call[c].via /\ call'[c].browser = call[c].browser
<1>1. call[c] \in CallStates
  BY DEF TypeOK
<1>2. [call[c] EXCEPT !.pc = pc, !.user = id] \in CallStates
  BY <1>1 DEF CallStates, Pcs
<1>3. QED
  BY <1>1, <1>2 DEF TypeOK, CallStates, OnlyCall

LEMMA CallWent ==
    ASSUME TypeOK, NEW c \in Calls, NEW pc \in Pcs, Goto(c, pc)
    PROVE  /\ call' \in [Calls -> CallStates] /\ OnlyCall(c)
           /\ call'[c].pc = pc /\ call'[c].user = call[c].user
           /\ call'[c].via = call[c].via /\ call'[c].browser = call[c].browser
<1>1. call[c] \in CallStates
  BY DEF TypeOK
<1>2. [call[c] EXCEPT !.pc = pc] \in CallStates
  BY <1>1 DEF CallStates, Pcs
<1>3. QED
  BY <1>1, <1>2 DEF Goto, TypeOK, CallStates, OnlyCall

LEMMA OnlyCallKnows ==
    ASSUME CallsKnow, NEW c \in Calls, OnlyCall(c), CallKnows(c)'
    PROVE  CallsKnow'
<1>1. SUFFICES ASSUME NEW d \in Calls, d # c PROVE CallKnows(d)'
  BY DEF CallsKnow
<1>2. CallKnows(d) /\ call'[d] = call[d]
  BY <1>1 DEF CallsKnow, OnlyCall
<1>3. QED
  BY <1>2 DEF CallKnows, Working

\* A step leaves the call it serves with no session to hand out, or has found
\* whose session it is.
Idles(c) == OnlyCall(c) /\ ~Working(c)'
Found(c, id) ==
    /\ OnlyCall(c) /\ Working(c)' /\ call'[c].user = id /\ call'[c].via = call[c].via

-----------------------------------------------------------------------------
(* What a step does to the rows. *)

\* A row is written once, or twice when a guest is upgraded.
UsersGrow ==
    \A id \in Users :
        \/ users'[id] = users[id]
        \/ /\ ~Exists(id) \/ users[id].guest
           /\ users'[id].name # None

TokensGrow ==
    \A t \in Tokens : tokens[t].user # None =>
        /\ tokens'[t].user = tokens[t].user
        /\ tokens[t].consumed => tokens'[t].consumed

\* One row is written.
Written(id, row) == users' = [users EXCEPT ![id] = row]

GuestRow(id) == [name |-> id, email |-> None, password |-> None, guest |-> TRUE]
PlayerRow(name, email, c) == [name |-> name, email |-> email, password |-> c, guest |-> FALSE]

LEMMA GuestWritten ==
    ASSUME TypeOK, RowsSound, NEW id \in Users, ~Exists(id), Written(id, GuestRow(id))
    PROVE  users' \in [Users -> Rows] /\ RowsSound' /\ UsersGrow /\ users'[id] = GuestRow(id)
<1> DEFINE row == GuestRow(id)
<1>1. /\ row \in Rows /\ row.name = id /\ row.email = None /\ row.password = None /\ row.guest
  BY DEF GuestRow, Rows
<1>2. users' = [users EXCEPT ![id] = row]
  BY DEF Written
<1> HIDE DEF row
<1>3. users' \in [Users -> Rows] /\ users'[id] = row /\ \A j \in Users : j # id => users'[j] = users[j]
  BY <1>1, <1>2 DEF TypeOK
<1>4. id # None /\ id \notin Spellings
  BY AccountsAssumption
<1>5. \A j \in Users : RowSound(j)'
  BY <1>1, <1>3, <1>4 DEF RowsSound, RowSound, Exists
<1>6. \A i, j \in Users : i # j => Distinct(i, j)'
  BY <1>1, <1>3, <1>4 DEF RowsSound, Distinct
<1>7. UsersGrow
  BY <1>1, <1>3, <1>4 DEF UsersGrow
<1>8. QED
  BY <1>3, <1>5, <1>6, <1>7 DEF RowsSound, row

LEMMA PlayerWritten ==
    ASSUME TypeOK, RowsSound, NEW id \in Users, ~Exists(id) \/ users[id].guest,
           NEW name \in Spellings \ Mails, NEW email \in Mails \cup {None}, NEW c \in Calls,
           ~Taken(id, name, email), Written(id, PlayerRow(name, email, c))
    PROVE  users' \in [Users -> Rows] /\ RowsSound' /\ UsersGrow
           /\ users'[id] = PlayerRow(name, email, c)
<1> DEFINE row == PlayerRow(name, email, c)
<1>1. row \in Rows /\ row.name = name /\ row.email = email /\ row.password = c /\ ~row.guest
  BY DEF PlayerRow, Rows
<1>2. users' = [users EXCEPT ![id] = row]
  BY DEF Written
<1> HIDE DEF row
<1>3. users' \in [Users -> Rows] /\ users'[id] = row /\ \A j \in Users : j # id => users'[j] = users[j]
  BY <1>1, <1>2 DEF TypeOK
<1>4. name # None
  BY AccountsAssumption
<1>5. \A j \in Users : RowSound(j)'
  BY <1>1, <1>3, <1>4 DEF RowsSound, RowSound, Exists
<1>6. ASSUME NEW j \in Users, j # id
      PROVE  /\ users[j].name \in Spellings => Fold[users[j].name] # Fold[name]
             /\ users[j].email # None /\ email # None => Fold[users[j].email] # Fold[email]
  <2>1. users[j].name \in Spellings => Exists(j)
    BY AccountsAssumption DEF Exists
  <2>2. users[j].email # None => Exists(j)
    BY DEF RowsSound, RowSound
  <2>3. QED
    BY <1>6, <2>1, <2>2 DEF Taken
<1>7. \A i, j \in Users : i # j => Distinct(i, j)'
  BY <1>1, <1>3, <1>6 DEF RowsSound, Distinct
<1>8. UsersGrow
  BY <1>1, <1>3, <1>4 DEF UsersGrow
<1>9. QED
  BY <1>3, <1>5, <1>7, <1>8 DEF RowsSound, row

\* What earned a session goes on to hold.
LEMMA EarnedLasts ==
    ASSUME TypeOK, RowsSound, UsersGrow, TokensGrow,
           NEW id \in Users, NEW by \in Calls, NEW via \in Vias, Earned(id, by, via)
    PROVE  Earned(id, by, via)'
<1>1. Exists(id)'
  BY DEF Earned, UsersGrow, Exists
<1>2. ASSUME users[id].password \in Calls PROVE users'[id] = users[id]
  <2>1. users[id].password # None
    BY <1>2, AccountsAssumption
  <2>2. Exists(id) /\ ~users[id].guest
    BY <2>1 DEF RowsSound, RowSound, Earned
  <2>3. QED
    BY <2>2 DEF UsersGrow
<1>3. via.op = "register" =>
           /\ users'[id].name = via.name /\ users'[id].email = via.email
           /\ users'[id].password = by
           /\ via.guest \in {None, id}
  BY <1>2 DEF Earned
<1>4. ASSUME via.op = "login" PROVE (id \in Matches(via.name))' /\ users'[id].password = via.password
  <2>1. via \in Logins
    BY <1>4 DEF Vias, Guests, Registers, Redeems
  <2>2. via.password \in Calls
    BY <2>1 DEF Logins
  <2>3. users'[id] = users[id] /\ id \in Matches(via.name) /\ users[id].password = via.password
    BY <1>2, <1>4, <2>2 DEF Earned
  <2>4. QED
    BY <1>1, <2>3 DEF Matches
<1>5. ASSUME via.op = "redeem" PROVE tokens'[via.token].user = id /\ tokens'[via.token].consumed
  <2>1. via \in Redeems
    BY <1>5 DEF Vias, Guests, Registers, Logins
  <2>2. via.token \in Tokens
    BY <2>1 DEF Redeems
  <2>3. tokens[via.token].user = id /\ tokens[via.token].consumed /\ id # None
    BY <1>5, AccountsAssumption DEF Earned
  <2>4. QED
    BY <2>2, <2>3 DEF TokensGrow
<1>6. QED
  BY <1>1, <1>3, <1>4, <1>5 DEF Earned

-----------------------------------------------------------------------------
(* Sessions. *)

LEMMA MintedLasts ==
    ASSUME TypeOK, RowsSound, SessionsSound, UsersGrow, TokensGrow, NEW s \in minted
    PROVE  Earned(s.user, s.by, s.via)'
<1>1. s.user \in Users /\ s.by \in Calls /\ s.via \in Vias
  BY DEF TypeOK
<1>2. PICK id \in Users, by \in Calls, via \in Vias : id = s.user /\ by = s.by /\ via = s.via
  BY <1>1
<1>3. Earned(id, by, via)
  BY <1>2 DEF SessionsSound
<1>4. Earned(id, by, via)'
  BY <1>3, EarnedLasts
<1>5. Earned(s.user, s.by, s.via)' <=> Earned(id, by, via)'
  BY <1>2 DEF Earned, Exists, Matches
<1>6. QED
  BY <1>4, <1>5

LEMMA WorkingLasts ==
    ASSUME TypeOK, CallsKnow, RowsSound, SessionsSound, UsersGrow, TokensGrow,
           NEW c \in Calls, Working(c), Working(c)',
           call'[c].user = call[c].user, call'[c].via = call[c].via
    PROVE  Earned(call[c].user, c, call[c].via)'
<1>1. PICK id \in Users, via \in Vias : id = call[c].user /\ via = call[c].via
  BY DEF CallsKnow, CallKnows
<1>2. Earned(id, c, via)
  BY <1>1 DEF SessionsSound
<1>3. Earned(id, c, via)'
  BY <1>2, EarnedLasts
<1>4. id = call'[c].user /\ via = call'[c].via
  BY <1>1
<1>5. QED
  BY <1>3, <1>4 DEF Earned, Exists, Matches

Sound == TypeOK /\ CallsKnow /\ RowsSound /\ SessionsSound /\ TokensOnce
Grows == UsersGrow /\ TokensGrow

LEMMA IdlesSound ==
    ASSUME Sound, Grows, minted' = minted, NEW c \in Calls, Idles(c)
    PROVE  SessionsSound' /\ TokensOnce'
<1> USE DEF Sound, Grows
<1>1. \A d \in Calls : Working(d)' => Working(d) /\ call'[d] = call[d]
  BY DEF Idles, OnlyCall, Working
<1>2. \A s \in minted' : Earned(s.user, s.by, s.via)'
  BY MintedLasts
<1>3. \A d \in Calls : Working(d)' => Earned(call[d].user, d, call[d].via)'
  BY <1>1, WorkingLasts
<1>4. SessionsSound'
  BY <1>2, <1>3 DEF SessionsSound
<1>5. TokensOnce'
  BY <1>1 DEF TokensOnce, SameToken
<1>6. QED
  BY <1>4, <1>5

\* The session that c has come to is earned, and its token, if it has one, serves
\* no other.
LEMMA FoundSound ==
    ASSUME Sound, Grows, minted' = minted, NEW c \in Calls, NEW id \in Users, Found(c, id),
           Earned(call[c].user, c, call[c].via)',
           \A d \in Calls : d # c /\ Working(d) => ~SameToken(call[d].via, call[c].via),
           \A s \in minted : ~SameToken(call[c].via, s.via)
    PROVE  SessionsSound' /\ TokensOnce'
<1> USE DEF Sound, Grows
<1>1. \A d \in Calls : d # c /\ Working(d)' => Working(d) /\ call'[d] = call[d]
  BY DEF Found, OnlyCall, Working
<1>2. \A s \in minted' : Earned(s.user, s.by, s.via)'
  BY MintedLasts
<1>3. \A d \in Calls : d # c /\ Working(d)' => Earned(call[d].user, d, call[d].via)'
  BY <1>1, WorkingLasts
<1>4. SessionsSound'
  BY <1>2, <1>3 DEF SessionsSound
<1>5. call'[c].via = call[c].via
  BY DEF Found
<1>6. \A d, e \in Calls : Working(d)' /\ Working(e)' /\ SameToken(call'[d].via, call'[e].via) => d = e
  BY <1>1, <1>5 DEF TokensOnce, SameToken
<1>7. \A d \in Calls, s \in minted : Working(d)' => ~SameToken(call'[d].via, s.via)
  BY <1>1, <1>5 DEF TokensOnce, SameToken
<1>8. TokensOnce'
  BY <1>6, <1>7 DEF TokensOnce, SameToken
<1>9. QED
  BY <1>4, <1>8

\* A session of a call that redeems no token, or that had come to it before.
LEMMA NoTokenShared ==
    ASSUME Sound, NEW c \in Calls, Working(c) \/ call[c].via.op # "redeem"
    PROVE  /\ \A d \in Calls : d # c /\ Working(d) => ~SameToken(call[d].via, call[c].via)
           /\ \A s \in minted : ~SameToken(call[c].via, s.via)
  BY DEF Sound, TokensOnce, SameToken

\* The claims are handed out, and the call ends.
LEMMA MintSound ==
    ASSUME Sound, Grows, NEW c \in Calls, Working(c), Idles(c),
           minted' = minted \cup {[user |-> call[c].user, by |-> c, via |-> call[c].via]}
    PROVE  /\ SessionsSound' /\ TokensOnce'
           /\ minted' \subseteq [user : Users, by : Calls, via : Vias]
<1> USE DEF Sound, Grows
<1>1. PICK id \in Users, via \in Vias : id = call[c].user /\ via = call[c].via
  BY DEF CallsKnow, CallKnows
<1> DEFINE new == [user |-> id, by |-> c, via |-> via]
<1>2. minted' = minted \cup {new}
  BY <1>1
<1>3. new.user = id /\ new.by = c /\ new.via = via /\ new \in [user : Users, by : Calls, via : Vias]
  OBVIOUS
<1> HIDE DEF new
<1>4. minted' \subseteq [user : Users, by : Calls, via : Vias]
  BY <1>2, <1>3 DEF TypeOK
<1>5. Earned(id, c, via)'
  <2>1. Earned(id, c, via)
    BY <1>1 DEF SessionsSound
  <2>2. QED
    BY <2>1, EarnedLasts
<1>6. \A d \in Calls : Working(d)' => d # c /\ Working(d) /\ call'[d] = call[d]
  BY DEF Idles, OnlyCall, Working
<1>7. \A s \in minted : Earned(s.user, s.by, s.via)'
  BY MintedLasts
<1>8. Earned(new.user, new.by, new.via)'
  BY <1>3, <1>5 DEF new, Earned, Exists, Matches
<1>9. \A d \in Calls : Working(d)' => Earned(call[d].user, d, call[d].via)'
  BY <1>6, WorkingLasts
<1>10. SessionsSound'
  BY <1>2, <1>7, <1>8, <1>9 DEF SessionsSound
<1>11. \A d \in Calls : d # c /\ Working(d) => ~SameToken(call[d].via, via)
  BY <1>1, NoTokenShared
<1>12. \A s \in minted : ~SameToken(via, s.via) /\ ~SameToken(s.via, via)
  BY <1>1, NoTokenShared DEF SameToken
<1>13. /\ \A d, e \in Calls : Working(d)' /\ Working(e)' /\ SameToken(call'[d].via, call'[e].via) => d = e
       /\ \A d \in Calls, s \in minted' : Working(d)' => ~SameToken(call'[d].via, s.via)
  BY <1>2, <1>3, <1>6, <1>11 DEF TokensOnce, SameToken
<1>14. \A r, s \in minted' : SameToken(r.via, s.via) => r.by = s.by
  BY <1>2, <1>3, <1>12 DEF TokensOnce
<1>15. TokensOnce'
  BY <1>13, <1>14 DEF TokensOnce, SameToken
<1>16. QED
  BY <1>4, <1>10, <1>15

-----------------------------------------------------------------------------
(* The steps. *)

LEMMA AccountsInit == Init => IInv
<1> HAVE Init
<1>1. /\ [name |-> None, email |-> None, password |-> None, guest |-> FALSE] \in Rows
      /\ [user |-> None, consumed |-> FALSE, expired |-> FALSE] \in TokenRows
      /\ NoClaims \in Claims
  BY DEF Rows, TokenRows, Claims, NoClaims
<1>2. users \in [Users -> Rows] /\ tokens \in [Tokens -> TokenRows] /\ cookie \in [Browsers -> Claims]
  BY <1>1 DEF Init
<1>3. call \in [Calls -> CallStates] /\ failed \in Nat /\ minted = {}
  BY NoCallTyped DEF Init
<1>4. TypeOK
  BY <1>2, <1>3 DEF TypeOK
<1>5. \A c \in Calls : call[c].pc = "new"
  BY DEF Init, NoCall
<1>6. CallsKnow /\ CookiesNamed
  BY <1>5 DEF CallsKnow, CallKnows, CookiesNamed, Working, Init, NoClaims
<1>7. \A id \in Users : users[id].name = None /\ users[id].email = None
                        /\ users[id].password = None /\ ~users[id].guest
  BY DEF Init
<1>8. RowsSound
  BY <1>7, AccountsAssumption DEF RowsSound, RowSound, Distinct, Exists
<1>9. SessionsSound /\ TokensOnce
  BY <1>3, <1>5 DEF SessionsSound, TokensOnce, Working
<1>10. TokensNamed
  BY DEF TokensNamed, Init
<1>11. QED
  BY <1>4, <1>6, <1>8, <1>9, <1>10 DEF IInv

LEMMA SameRows ==
    ASSUME RowsSound, users' = users
    PROVE  RowsSound' /\ UsersGrow
  BY DEF RowsSound, RowSound, Distinct, Exists, UsersGrow

LEMMA SameTokens ==
    ASSUME tokens' = tokens
    PROVE  TokensGrow
  BY DEF TokensGrow

\* Rows stay, so that tokens stay somebody's.
LEMMA TokensStayNamed ==
    ASSUME TypeOK, TokensNamed, UsersGrow, tokens' = tokens
    PROVE  TokensNamed'
<1>1. SUFFICES ASSUME NEW t \in Tokens, tokens[t].user # None PROVE users'[tokens[t].user].name # None
  BY DEF TokensNamed, Exists
<1>2. tokens[t].user \in Users /\ Exists(tokens[t].user)
  BY <1>1 DEF TypeOK, TokensNamed, TokenRows
<1>3. QED
  BY <1>2 DEF UsersGrow, Exists

\* A call is sent.
LEMMA SentPreserves ==
    ASSUME IInv, NEW c \in Calls, NEW b \in Browsers,
           NEW pc \in {"insert", "upgrade", "login", "issue", "redeem"},
           NEW via \in Vias \cup Requests, Send(c, b, pc, via),
           UNCHANGED <<users, tokens, cookie, failed, minted>>,
           /\ pc = "insert" => via \in Guests \/ (via \in Registers /\ via.guest = None)
           /\ pc = "upgrade" => via \in Registers /\ via.guest \in Users
           /\ pc = "login" => via \in Logins
           /\ pc = "issue" => via \in Requests
           /\ pc = "redeem" => via \in Redeems
    PROVE  IInv'
<1> USE DEF IInv
<1>1. /\ call' \in [Calls -> CallStates] /\ OnlyCall(c)
      /\ call'[c].pc = pc /\ call'[c].via = via /\ call'[c].browser = b
  BY CallSent DEF Pcs
<1>2. TypeOK' /\ CookiesNamed'
  BY <1>1 DEF TypeOK, CookiesNamed
<1>3. ~Working(c)'
  BY <1>1 DEF Working
<1>4. CallKnows(c)'
  BY <1>1, <1>3 DEF CallKnows
<1>5. CallsKnow'
  BY <1>1, <1>4, OnlyCallKnows
<1>6. RowsSound' /\ UsersGrow /\ TokensGrow
  BY SameRows, SameTokens
<1>7. TokensNamed'
  BY <1>6, TokensStayNamed
<1>8. Sound /\ Grows /\ Idles(c)
  BY <1>1, <1>3, <1>6 DEF Sound, Grows, Idles
<1>9. SessionsSound' /\ TokensOnce'
  BY <1>8, IdlesSound
<1>10. QED
  BY <1>2, <1>5, <1>6, <1>7, <1>9

\* A call ends, with nothing written to the accounts.
LEMMA DonePreserves ==
    ASSUME IInv, NEW c \in Calls, Done(c), UNCHANGED <<users, minted>>, failed' \in Nat,
           cookie' \in [Browsers -> Claims], CookiesNamed',
           tokens' \in [Tokens -> TokenRows], TokensGrow, TokensNamed'
    PROVE  IInv'
<1> USE DEF IInv
<1>1. call' \in [Calls -> CallStates] /\ OnlyCall(c) /\ call'[c].pc = "done"
  BY CallDone
<1>2. TypeOK'
  BY <1>1 DEF TypeOK
<1>3. ~Working(c)' /\ CallKnows(c)'
  BY <1>1 DEF CallKnows, Working
<1>4. CallsKnow'
  BY <1>1, <1>3, OnlyCallKnows
<1>5. RowsSound' /\ UsersGrow
  BY SameRows
<1>6. Sound /\ Grows /\ Idles(c)
  BY <1>1, <1>3, <1>5 DEF Sound, Grows, Idles
<1>7. SessionsSound' /\ TokensOnce'
  BY <1>6, IdlesSound
<1>8. QED
  BY <1>2, <1>4, <1>5, <1>7

\* A query fails, or finds nothing.
LEMMA GivesUp ==
    ASSUME IInv, NEW c \in Calls, Done(c), UNCHANGED <<users, tokens, cookie, minted>>,
           Fails \/ UNCHANGED failed
    PROVE  IInv'
<1>1. failed' \in Nat
  BY DEF IInv, TypeOK, Fails
<1>2. /\ cookie' \in [Browsers -> Claims] /\ CookiesNamed'
      /\ tokens' \in [Tokens -> TokenRows] /\ TokensGrow /\ TokensNamed'
  BY SameTokens DEF IInv, TypeOK, TokensNamed, Exists, CookiesNamed
<1>3. QED
  BY <1>1, <1>2, DonePreserves

\* A call has found, or made, the account whose session it asks for.
LEMMA FoundPreserves ==
    ASSUME IInv, NEW c \in Calls, NEW id \in Users, NEW pc \in {"load", "respond"},
           call' = [call EXCEPT ![c].pc = pc, ![c].user = id],
           NEW via \in Vias, via = call[c].via, call[c].browser \in Browsers,
           UNCHANGED <<cookie, failed, minted>>,
           users' \in [Users -> Rows], RowsSound', UsersGrow,
           tokens' \in [Tokens -> TokenRows], TokensGrow, TokensNamed',
           Earned(id, c, via)',
           \A d \in Calls : d # c /\ Working(d) => ~SameToken(call[d].via, via),
           \A s \in minted : ~SameToken(via, s.via)
    PROVE  IInv'
<1> USE DEF IInv
<1>1. /\ call' \in [Calls -> CallStates] /\ OnlyCall(c)
      /\ call'[c].pc = pc /\ call'[c].user = id
      /\ call'[c].via = via /\ call'[c].browser \in Browsers
  BY CallNamed DEF Pcs
<1>2. TypeOK' /\ CookiesNamed'
  BY <1>1 DEF TypeOK, CookiesNamed
<1>3. Working(c)' /\ CallKnows(c)'
  BY <1>1 DEF CallKnows, Working
<1>4. CallsKnow'
  BY <1>1, <1>3, OnlyCallKnows
<1>5. Earned(call[c].user, c, call[c].via)'
  BY <1>1 DEF Earned, Exists, Matches
<1>6. Sound /\ Grows /\ Found(c, id)
  BY <1>1, <1>3 DEF Sound, Grows, Found
<1>7. SessionsSound' /\ TokensOnce'
  BY <1>5, <1>6, FoundSound
<1>8. QED
  BY <1>2, <1>4, <1>7

LEMMA RegisterPreserves ==
    ASSUME IInv, NEW c \in Calls, NEW b \in Browsers, NEW name \in Spellings,
           NEW email \in Mails \cup {None}, NEW upgrade \in BOOLEAN,
           Register(c, b, name, email, upgrade)
    PROVE  IInv'
<1> DEFINE guest == IF upgrade /\ cookie[b].guest THEN cookie[b].user ELSE None
           pc == IF guest = None THEN "insert" ELSE "upgrade"
           via == [op |-> "register", name |-> name, email |-> email, guest |-> guest]
<1>1. guest \in Users \cup {None}
  BY DEF IInv, CookiesNamed
<1>2. name \in Spellings \ Mails /\ Send(c, b, pc, via)
      /\ UNCHANGED <<users, tokens, cookie, failed, minted>>
  BY DEF Register, ValidUsername
<1> HIDE DEF guest
<1>3. via \in Registers /\ via.guest = guest
  BY <1>1, <1>2 DEF Registers
<1>4. via \in Vias \cup Requests
  BY <1>3 DEF Vias
<1> HIDE DEF via
<1>5. CASE guest = None
  <2>1. Send(c, b, "insert", via)
    BY <1>2, <1>5
  <2>2. QED
    BY <1>2, <1>3, <1>4, <1>5, <2>1, SentPreserves
<1>6. CASE guest # None
  <2>1. Send(c, b, "upgrade", via) /\ via.guest \in Users
    BY <1>1, <1>2, <1>3, <1>6
  <2>2. QED
    BY <1>2, <1>3, <1>4, <2>1, SentPreserves
<1>7. QED
  BY <1>5, <1>6

LEMMA AskPreserves ==
    ASSUME IInv, NEW c \in Calls, NEW b \in Browsers, Ask(c, b)
    PROVE  IInv'
<1>1. ASSUME LoginAsGuest(c, b) PROVE IInv'
  <2>1. [op |-> "guest"] \in Guests
    BY DEF Guests
  <2>2. PICK via \in Guests : Send(c, b, "insert", via) /\ UNCHANGED <<users, tokens, cookie, failed, minted>>
    BY <1>1, <2>1 DEF LoginAsGuest
  <2>3. via \in Vias \cup Requests
    BY DEF Vias
  <2>4. QED
    BY <2>2, <2>3, SentPreserves
<1>2. ASSUME NEW identifier \in Spellings, NEW password \in Calls, Login(c, b, identifier, password)
      PROVE  IInv'
  <2>1. [op |-> "login", name |-> identifier, password |-> password] \in Logins
    BY DEF Logins
  <2>2. PICK via \in Logins : Send(c, b, "login", via) /\ UNCHANGED <<users, tokens, cookie, failed, minted>>
    BY <1>2, <2>1 DEF Login
  <2>3. via \in Vias \cup Requests
    BY DEF Vias
  <2>4. QED
    BY <2>2, <2>3, SentPreserves
<1>3. ASSUME NEW email \in Spellings, RequestLoginToken(c, b, email) PROVE IInv'
  <2>1. [op |-> "request", email |-> email] \in Requests
    BY DEF Requests
  <2>2. PICK via \in Requests : Send(c, b, "issue", via) /\ UNCHANGED <<users, tokens, cookie, failed, minted>>
    BY <1>3, <2>1 DEF RequestLoginToken
  <2>3. QED
    BY <2>2, SentPreserves
<1>4. ASSUME NEW t \in Tokens, RedeemLoginToken(c, b, t) PROVE IInv'
  <2>1. [op |-> "redeem", token |-> t] \in Redeems
    BY DEF Redeems
  <2>2. PICK via \in Redeems : Send(c, b, "redeem", via) /\ UNCHANGED <<users, tokens, cookie, failed, minted>>
    BY <1>4, <2>1 DEF RedeemLoginToken
  <2>3. via \in Vias \cup Requests
    BY DEF Vias
  <2>4. QED
    BY <2>2, <2>3, SentPreserves
<1>5. ASSUME Logout(c, b) PROVE IInv'
  <2>1. /\ Done(c) /\ UNCHANGED <<users, tokens, failed, minted>>
        /\ cookie' = [cookie EXCEPT ![b] = NoClaims]
    BY <1>5 DEF Logout
  <2>2. NoClaims \in Claims /\ ~NoClaims.guest
    BY DEF NoClaims, Claims
  <2>3. cookie' \in [Browsers -> Claims] /\ CookiesNamed'
    BY <2>1, <2>2 DEF IInv, TypeOK, CookiesNamed
  <2>4. tokens' \in [Tokens -> TokenRows] /\ failed' \in Nat /\ TokensGrow /\ TokensNamed'
    BY <2>1, SameTokens DEF IInv, TypeOK, TokensNamed, Exists
  <2>5. QED
    BY <2>1, <2>3, <2>4, DonePreserves
<1>6. QED
  BY <1>1, <1>2, <1>3, <1>4, <1>5, RegisterPreserves DEF Ask

\* What a registration leaves is what earns its session.
LEMMA RegisteredEarns ==
    ASSUME TypeOK, NEW c \in Calls, NEW id \in Users, NEW via \in Registers,
           via.guest \in {None, id}, users'[id] = PlayerRow(via.name, via.email, c)
    PROVE  Earned(id, c, via)'
<1>1. via.op = "register" /\ via.name # None
  BY AccountsAssumption DEF Registers
<1>2. users'[id].name = via.name /\ users'[id].email = via.email /\ users'[id].password = c
  BY DEF PlayerRow
<1>3. QED
  BY <1>1, <1>2 DEF Earned, Exists

\* A row is written for a call that asked to be registered.
LEMMA RegisterWrites ==
    ASSUME IInv, NEW c \in Calls, NEW id \in Users, ~Exists(id) \/ users[id].guest,
           call[c].pc \in {"insert", "upgrade"},
           NEW via \in Registers, via = call[c].via, via.guest \in {None, id},
           ~Taken(id, via.name, via.email), Written(id, PlayerRow(via.name, via.email, c)),
           call' = [call EXCEPT ![c].pc = "load", ![c].user = id],
           UNCHANGED <<tokens, cookie, failed, minted>>
    PROVE  IInv'
<1> USE DEF IInv
<1>1. via.op = "register" /\ via.name \in Spellings \ Mails /\ via.email \in Mails \cup {None} /\ via \in Vias
  BY DEF Registers, Vias
<1>2. users' \in [Users -> Rows] /\ RowsSound' /\ UsersGrow
      /\ users'[id] = PlayerRow(via.name, via.email, c)
  BY <1>1, PlayerWritten
<1>3. Earned(id, c, via)'
  BY <1>2, RegisteredEarns
<1>4. tokens' \in [Tokens -> TokenRows] /\ TokensGrow /\ TokensNamed'
  BY <1>2, SameTokens, TokensStayNamed DEF TypeOK
<1>5. call[c].browser \in Browsers
  BY DEF CallsKnow, CallKnows
<1>6. /\ \A d \in Calls : d # c /\ Working(d) => ~SameToken(call[d].via, via)
      /\ \A s \in minted : ~SameToken(via, s.via)
  BY <1>1 DEF SameToken
<1>7. QED
  BY <1>1, <1>2, <1>3, <1>4, <1>5, <1>6, FoundPreserves

LEMMA InsertPreserves ==
    ASSUME IInv, NEW c \in Calls, Insert(c)
    PROVE  IInv'
<1> DEFINE via == call[c].via
<1>1. call[c].pc = "insert" /\ UNCHANGED <<tokens, cookie, minted>>
      /\ (via \in Guests \/ (via \in Registers /\ via.guest = None))
  BY DEF Insert, IInv, CallsKnow, CallKnows
<1>2. CASE Done(c) /\ UNCHANGED users /\ (Fails \/ UNCHANGED failed)
  BY <1>1, <1>2, GivesUp
<1>3. ASSUME NEW id \in Users, ~Exists(id), via.op = "guest", Written(id, GuestRow(id)),
             call' = [call EXCEPT ![c].pc = "load", ![c].user = id], UNCHANGED failed
      PROVE  IInv'
  <2> USE DEF IInv
  <2>1. PICK v \in Vias : v = via /\ v.op = "guest"
    BY <1>1, <1>3 DEF Vias
  <2>2. users' \in [Users -> Rows] /\ RowsSound' /\ UsersGrow /\ users'[id] = GuestRow(id)
    BY <1>3, GuestWritten
  <2>3. Earned(id, c, v)'
    BY <2>1, <2>2, AccountsAssumption DEF Earned, Exists, GuestRow
  <2>4. tokens' \in [Tokens -> TokenRows] /\ TokensGrow /\ TokensNamed'
    BY <1>1, <2>2, SameTokens, TokensStayNamed DEF TypeOK
  <2>5. call[c].browser \in Browsers
    BY <1>1 DEF CallsKnow, CallKnows
  <2>6. /\ \A d \in Calls : d # c /\ Working(d) => ~SameToken(call[d].via, v)
        /\ \A s \in minted : ~SameToken(v, s.via)
    BY <2>1 DEF SameToken
  <2>7. QED
    BY <1>1, <1>3, <2>1, <2>2, <2>3, <2>4, <2>5, <2>6, FoundPreserves
<1>4. ASSUME NEW id \in Users, ~Exists(id), via.op = "register", ~Taken(id, via.name, via.email),
             Written(id, PlayerRow(via.name, via.email, c)),
             call' = [call EXCEPT ![c].pc = "load", ![c].user = id], UNCHANGED failed
      PROVE  IInv'
  <2>1. PICK v \in Registers : v = via /\ v.guest = None
    BY <1>1, <1>4 DEF Guests
  <2>2. QED
    BY <1>1, <1>4, <2>1, RegisterWrites
<1>5. QED
  BY <1>2, <1>3, <1>4 DEF Insert, Written, GuestRow, PlayerRow

LEMMA UpgradePreserves ==
    ASSUME IInv, NEW c \in Calls, UpgradeGuest(c)
    PROVE  IInv'
<1>1. call[c].pc = "upgrade" /\ UNCHANGED <<tokens, cookie, minted>>
  BY DEF UpgradeGuest
<1>2. PICK v \in Registers : v = call[c].via /\ v.guest \in Users
  BY <1>1 DEF IInv, CallsKnow, CallKnows
<1>3. PICK id \in Users : id = v.guest
  BY <1>2
<1>4. CASE Done(c) /\ UNCHANGED users /\ (Fails \/ UNCHANGED failed)
  BY <1>1, <1>4, GivesUp
<1>5. CASE /\ users[id].guest /\ ~Taken(id, v.name, v.email)
           /\ Written(id, PlayerRow(v.name, v.email, c))
           /\ call' = [call EXCEPT ![c].pc = "load", ![c].user = id] /\ UNCHANGED failed
  BY <1>1, <1>2, <1>3, <1>5, RegisterWrites
<1>6. QED
  BY <1>2, <1>3, <1>4, <1>5 DEF UpgradeGuest, Written, PlayerRow

LEMMA CheckPreserves ==
    ASSUME IInv, NEW c \in Calls, CheckPassword(c)
    PROVE  IInv'
<1>1. call[c].pc = "login" /\ UNCHANGED <<users, tokens, cookie, minted>>
  BY DEF CheckPassword
<1>2. PICK v \in Logins : v = call[c].via
  BY <1>1 DEF IInv, CallsKnow, CallKnows
<1>3. CASE Done(c) /\ (Fails \/ UNCHANGED failed)
  BY <1>1, <1>3, GivesUp
<1>4. ASSUME NEW id \in Matches(v.name), users[id].password = v.password,
             call' = [call EXCEPT ![c].pc = "respond", ![c].user = id], UNCHANGED failed
      PROVE  IInv'
  <2> USE DEF IInv
  <2>1. id \in Users /\ Exists(id) /\ v.op = "login" /\ v \in Vias
    BY <1>4 DEF Matches, Logins, Vias
  <2>2. users' \in [Users -> Rows] /\ RowsSound' /\ UsersGrow
    BY <1>1, SameRows DEF TypeOK
  <2>3. tokens' \in [Tokens -> TokenRows] /\ TokensGrow /\ TokensNamed'
    BY <1>1, <2>2, SameTokens, TokensStayNamed DEF TypeOK
  <2>4. Earned(id, c, v)'
    BY <1>1, <1>4, <2>1 DEF Earned, Exists, Matches
  <2>5. call[c].browser \in Browsers
    BY <1>1 DEF CallsKnow, CallKnows
  <2>6. /\ \A d \in Calls : d # c /\ Working(d) => ~SameToken(call[d].via, v)
        /\ \A s \in minted : ~SameToken(v, s.via)
    BY <2>1 DEF SameToken
  <2>7. UNCHANGED <<cookie, failed, minted>>
    BY <1>1, <1>4
  <2>8. QED
    BY <1>2, <1>4, <2>1, <2>2, <2>3, <2>4, <2>5, <2>6, <2>7, FoundPreserves
<1>5. QED
  BY <1>2, <1>3, <1>4 DEF CheckPassword

\* A token is issued to an account that exists.
LEMMA IssuePreserves ==
    ASSUME IInv, NEW c \in Calls, NewLoginToken(c)
    PROVE  IInv'
<1> DEFINE email == call[c].via.email
<1>1. Done(c) /\ UNCHANGED <<users, cookie, minted>>
  BY DEF NewLoginToken
<1>2. CASE UNCHANGED tokens /\ (Fails \/ UNCHANGED failed)
  BY <1>1, <1>2, GivesUp
<1>3. ASSUME NEW id \in Matches(email), NEW t \in Tokens, tokens[t].user = None,
             tokens' = [tokens EXCEPT ![t] = [user |-> id, consumed |-> FALSE, expired |-> FALSE]],
             UNCHANGED failed
      PROVE  IInv'
  <2>1. id \in Users /\ Exists(id)
    BY <1>3 DEF Matches
  <2> DEFINE row == [user |-> id, consumed |-> FALSE, expired |-> FALSE]
  <2>2. row \in TokenRows /\ row.user = id
    BY <2>1 DEF TokenRows
  <2>3. tokens' = [tokens EXCEPT ![t] = row]
    BY <1>3
  <2> HIDE DEF row
  <2>4. tokens' \in [Tokens -> TokenRows] /\ TokensGrow
    BY <1>3, <2>2, <2>3 DEF IInv, TypeOK, TokensGrow
  <2>5. TokensNamed'
    BY <1>1, <2>1, <2>2, <2>3 DEF IInv, TypeOK, TokensNamed, Exists
  <2>6. failed' \in Nat /\ cookie' \in [Browsers -> Claims] /\ CookiesNamed'
    BY <1>1, <1>3 DEF IInv, TypeOK, CookiesNamed
  <2>7. QED
    BY <1>1, <2>4, <2>5, <2>6, DonePreserves
<1>4. QED
  BY <1>2, <1>3 DEF NewLoginToken

\* A token is consumed by the first call that redeems it: the ones that have a
\* session of it left it consumed.
LEMMA ConsumePreserves ==
    ASSUME IInv, NEW c \in Calls, ConsumeToken(c)
    PROVE  IInv'
<1>1. call[c].pc = "redeem" /\ UNCHANGED <<users, cookie, minted>>
  BY DEF ConsumeToken
<1>2. PICK v \in Redeems : v = call[c].via
  BY <1>1 DEF IInv, CallsKnow, CallKnows
<1>3. v.op = "redeem" /\ v.token \in Tokens /\ v \in Vias
  BY DEF Redeems, Vias
<1>4. PICK t \in Tokens : t = v.token
  BY <1>3
<1>5. CASE Done(c) /\ UNCHANGED tokens /\ (Fails \/ UNCHANGED failed)
  BY <1>1, <1>5, GivesUp
<1>6. ASSUME tokens[t].user # None, ~tokens[t].consumed,
             tokens' = [tokens EXCEPT ![t].consumed = TRUE],
             call' = [call EXCEPT ![c].pc = "load", ![c].user = tokens[t].user], UNCHANGED failed
      PROVE  IInv'
  <2> USE DEF IInv
  <2>1. tokens[t] \in TokenRows
    BY DEF TypeOK
  <2>2. PICK id \in Users : id = tokens[t].user
    BY <1>6, <2>1 DEF TokenRows
  <2>3. Exists(id)
    BY <1>6, <2>2 DEF TokensNamed
  <2> DEFINE row == [tokens[t] EXCEPT !.consumed = TRUE]
  <2>4. row \in TokenRows /\ row.user = id /\ row.consumed
    BY <2>1, <2>2 DEF TokenRows
  <2>5. tokens' = [tokens EXCEPT ![t] = row]
    BY <1>6 DEF TypeOK
  <2> HIDE DEF row
  <2>6. tokens' \in [Tokens -> TokenRows] /\ TokensGrow
    BY <1>6, <2>2, <2>4, <2>5 DEF TypeOK, TokensGrow
  <2>7. TokensNamed'
    BY <1>1, <2>2, <2>3, <2>4, <2>5 DEF TypeOK, TokensNamed, Exists
  <2>8. tokens'[t].user = id /\ tokens'[t].consumed
    BY <2>4, <2>5 DEF TypeOK
  <2>9. Earned(id, c, v)'
    BY <1>1, <1>3, <1>4, <2>3, <2>8 DEF Earned, Exists
  <2>10. users' \in [Users -> Rows] /\ RowsSound' /\ UsersGrow
    BY <1>1, SameRows DEF TypeOK
  <2>11. \A d \in Calls : d # c /\ Working(d) => ~SameToken(call[d].via, v)
    BY <1>4, <1>6 DEF SessionsSound, Earned, SameToken
  <2>12. \A s \in minted : ~SameToken(v, s.via)
    BY <1>4, <1>6 DEF SessionsSound, Earned, SameToken
  <2>13. call[c].browser \in Browsers
    BY <1>1 DEF CallsKnow, CallKnows
  <2>14. UNCHANGED <<cookie, failed, minted>> /\ call' = [call EXCEPT ![c].pc = "load", ![c].user = id]
    BY <1>1, <1>6, <2>2
  <2>15. QED
    BY <1>2, <1>3, <2>6, <2>7, <2>9, <2>10, <2>11, <2>12, <2>13, <2>14, FoundPreserves
<1>7. QED
  BY <1>2, <1>4, <1>5, <1>6 DEF ConsumeToken

LEMMA LoadPreserves ==
    ASSUME IInv, NEW c \in Calls, LoadUser(c)
    PROVE  IInv'
<1>1. call[c].pc = "load" /\ UNCHANGED <<users, tokens, cookie, minted>>
  BY DEF LoadUser
<1>2. CASE Done(c) /\ Fails
  BY <1>1, <1>2, GivesUp
<1>3. CASE Goto(c, "respond") /\ UNCHANGED failed
  <2> USE DEF IInv
  <2>1. /\ call' \in [Calls -> CallStates] /\ OnlyCall(c)
        /\ call'[c].pc = "respond" /\ call'[c].user = call[c].user
        /\ call'[c].via = call[c].via /\ call'[c].browser = call[c].browser
    BY <1>3, CallWent DEF Pcs
  <2>2. TypeOK' /\ CookiesNamed'
    BY <1>1, <1>3, <2>1 DEF TypeOK, CookiesNamed
  <2>3. Working(c) /\ Working(c)' /\ CallKnows(c)
    BY <1>1, <2>1 DEF Working, CallsKnow
  <2>4. CallKnows(c)'
    BY <1>1, <2>1, <2>3 DEF CallKnows
  <2>5. CallsKnow'
    BY <2>1, <2>4, OnlyCallKnows
  <2>6. RowsSound' /\ UsersGrow /\ TokensGrow
    BY <1>1, SameRows, SameTokens
  <2>7. TokensNamed'
    BY <1>1, <2>6, TokensStayNamed
  <2>8. Earned(call[c].user, c, call[c].via)'
    BY <2>1, <2>3, <2>6, WorkingLasts
  <2>9. PICK id \in Users : id = call[c].user
    BY <2>3 DEF CallKnows
  <2>10. Sound /\ Grows /\ Found(c, id)
    BY <2>1, <2>3, <2>6, <2>9 DEF Sound, Grows, Found
  <2>11. /\ \A d \in Calls : d # c /\ Working(d) => ~SameToken(call[d].via, call[c].via)
         /\ \A s \in minted : ~SameToken(call[c].via, s.via)
    BY <2>3, <2>10, NoTokenShared
  <2>12. SessionsSound' /\ TokensOnce'
    BY <1>1, <2>8, <2>10, <2>11, FoundSound
  <2>13. QED
    BY <2>2, <2>5, <2>6, <2>7, <2>12
<1>4. QED
  BY <1>2, <1>3 DEF LoadUser

LEMMA StartPreserves ==
    ASSUME IInv, NEW c \in Calls, StartSession(c)
    PROVE  IInv'
<1> USE DEF IInv
<1>1. /\ call[c].pc = "respond" /\ Done(c) /\ UNCHANGED <<users, tokens>>
      /\ minted' = minted \cup {[user |-> call[c].user, by |-> c, via |-> call[c].via]}
  BY DEF StartSession
<1>2. Working(c) /\ call[c].user \in Users /\ call[c].browser \in Browsers
  BY <1>1 DEF Working, CallsKnow, CallKnows
<1>3. call' \in [Calls -> CallStates] /\ OnlyCall(c) /\ call'[c].pc = "done"
  BY <1>1, CallDone
<1>4. ~Working(c)' /\ CallKnows(c)'
  BY <1>3 DEF CallKnows, Working
<1>5. CallsKnow'
  BY <1>3, <1>4, OnlyCallKnows
<1>6. RowsSound' /\ UsersGrow /\ TokensGrow
  BY <1>1, SameRows, SameTokens
<1>7. TokensNamed'
  BY <1>1, <1>6, TokensStayNamed
<1>8. Sound /\ Grows /\ Idles(c)
  BY <1>3, <1>4, <1>6 DEF Sound, Grows, Idles
<1>9. SessionsSound' /\ TokensOnce' /\ minted' \subseteq [user : Users, by : Calls, via : Vias]
  BY <1>1, <1>2, <1>8, MintSound
<1>10. failed' \in Nat
  BY DEF StartSession, Fails, TypeOK
<1>11. cookie' \in [Browsers -> Claims] /\ CookiesNamed'
  <2> DEFINE claims == [user |-> call[c].user, guest |-> users[call[c].user].guest]
  <2>1. users[call[c].user] \in Rows
    BY <1>2 DEF TypeOK
  <2>2. claims \in Claims /\ claims.user \in Users
    BY <1>2, <2>1 DEF Claims, Rows
  <2>3. cookie' = cookie \/ cookie' = [cookie EXCEPT ![call[c].browser] = claims]
    BY DEF StartSession
  <2> HIDE DEF claims
  <2>4. QED
    BY <1>2, <2>2, <2>3 DEF TypeOK, CookiesNamed
<1>12. TypeOK'
  BY <1>1, <1>3, <1>9, <1>10, <1>11 DEF TypeOK
<1>13. QED
  BY <1>5, <1>6, <1>7, <1>9, <1>11, <1>12

LEMMA ExpirePreserves ==
    ASSUME IInv, NEW t \in Tokens, Expire(t)
    PROVE  IInv'
<1> USE DEF IInv
<1>1. /\ tokens' = [tokens EXCEPT ![t].expired = TRUE]
      /\ UNCHANGED <<users, cookie, call, failed, minted>>
  BY DEF Expire
<1>2. tokens[t] \in TokenRows
  BY DEF TypeOK
<1> DEFINE row == [tokens[t] EXCEPT !.expired = TRUE]
<1>3. row \in TokenRows /\ row.user = tokens[t].user /\ row.consumed = tokens[t].consumed
  BY <1>2 DEF TokenRows
<1>4. tokens' = [tokens EXCEPT ![t] = row]
  BY <1>1 DEF TypeOK
<1> HIDE DEF row
<1>5. tokens' \in [Tokens -> TokenRows] /\ \A k \in Tokens : tokens'[k].user = tokens[k].user
                                             /\ tokens'[k].consumed = tokens[k].consumed
  BY <1>3, <1>4 DEF TypeOK
<1>6. RowsSound' /\ UsersGrow /\ TokensGrow
  BY <1>1, <1>5, SameRows DEF TokensGrow
<1>7. TypeOK' /\ CookiesNamed' /\ TokensNamed'
  BY <1>1, <1>5 DEF TypeOK, CookiesNamed, TokensNamed, Exists
<1>8. \A c \in Calls : Working(c)' <=> Working(c)
  BY <1>1 DEF Working
<1>9. CallsKnow' /\ TokensOnce'
  BY <1>1, <1>8 DEF CallsKnow, CallKnows, TokensOnce, SameToken
<1>10. \A s \in minted' : Earned(s.user, s.by, s.via)'
  BY <1>1, <1>6, MintedLasts
<1>11. \A c \in Calls : Working(c)' => Earned(call[c].user, c, call[c].via)'
  BY <1>1, <1>6, <1>8, WorkingLasts
<1>12. QED
  BY <1>6, <1>7, <1>9, <1>10, <1>11 DEF SessionsSound

-----------------------------------------------------------------------------
(* The theorems. *)

\* Of any number of browsers, calls and accounts, whatever fails: a row is a
\* guest's or has a name and a password (Register, upgradeGuest), the unique
\* indexes hold, and what a call has found earns the session it will be given.
THEOREM AccountsInductive == Spec => []IInv
<1>1. IInv /\ [Next]_vars => IInv'
  <2> SUFFICES ASSUME IInv, [Next]_vars PROVE IInv'
    OBVIOUS
  <2>1. CASE UNCHANGED vars
    BY <2>1, SMTT(20) DEF vars, IInv, TypeOK, CallsKnow, CallKnows, CookiesNamed, RowsSound, RowSound, Distinct,
           SessionsSound, TokensNamed, TokensOnce, SameToken, Working, Earned, Exists, Matches
  <2>2. ASSUME NEW c \in Calls, Serve(c) PROVE IInv'
    BY <2>2, InsertPreserves, UpgradePreserves, CheckPreserves, IssuePreserves, ConsumePreserves,
       LoadPreserves, StartPreserves DEF Serve
  <2>3. QED
    BY <2>1, <2>2, AskPreserves, ExpirePreserves DEF Next
<1>2. QED
  BY <1>1, AccountsInit, PTL DEF Spec

\* What is typed to sign in names one account at most: a username is never an
\* address (validateUsername), and each has a unique index over its folded form, so
\* that the LIMIT 1 of FindUserByIdentifier never chooses.
THEOREM IdentifiersAreUnique == Spec => []OneAccountPerIdentifier
<1>1. IInv => OneAccountPerIdentifier
  <2>1. SUFFICES ASSUME IInv, NEW s \in Spellings PROVE Cardinality(Matches(s)) <= 1
    BY DEF OneAccountPerIdentifier
  <2>2. ASSUME NEW i \in Matches(s), NEW j \in Matches(s), i # j PROVE FALSE
    <3>1. i \in Users /\ j \in Users /\ Distinct(i, j) /\ RowSound(i) /\ RowSound(j)
      BY <2>1, <2>2 DEF Matches, IInv, RowsSound
    <3>2. users[i] \in Rows /\ users[j] \in Rows
      BY <2>1, <3>1 DEF IInv, TypeOK
    <3>3. PICK x \in {users[i].name, users[i].email} \cap Spellings : Fold[x] = Fold[s]
      BY <2>2 DEF Matches
    <3>4. PICK y \in {users[j].name, users[j].email} \cap Spellings : Fold[y] = Fold[s]
      BY <2>2 DEF Matches
    <3>5. /\ users[i].name \in Spellings => users[i].name \notin Mails
          /\ users[j].name \in Spellings => users[j].name \notin Mails
      BY <3>1, AccountsAssumption DEF RowSound, Exists
    <3>6. /\ users[i].email \in Spellings => users[i].email \in Mails
          /\ users[j].email \in Spellings => users[j].email \in Mails
      BY <3>2, AccountsAssumption DEF Rows
    <3>7. x \in Mails <=> y \in Mails
      BY <3>3, <3>4, AccountsAssumption
    <3>8. QED
      BY <3>1, <3>3, <3>4, <3>5, <3>6, <3>7, AccountsAssumption DEF Distinct
  <2>3. CASE Matches(s) = {}
    BY <2>3, FS_EmptySet
  <2>4. CASE Matches(s) # {}
    <3>1. PICK i : Matches(s) = {i}
      BY <2>2, <2>4
    <3>2. Cardinality({i}) = 1
      BY FS_Singleton
    <3>3. QED
      BY <3>1, <3>2
  <2>5. QED
    BY <2>3, <2>4
<1>2. QED
  BY <1>1, AccountsInductive, PTL

\* Every session was earned, and what earned it still holds: an upgrade takes only
\* a row that is still a guest's (upgradeGuest), a token is consumed by one call
\* (RedeemLoginToken's conditional UPDATE), and no registered row is written again.
THEOREM SessionsAreEarned == Spec => []SessionsEarned
<1>1. IInv => SessionsEarned
  <2>1. SUFFICES ASSUME IInv, NEW s \in minted
                 PROVE  LET account == users[s.user] IN
                        CASE s.via.op = "register" ->
                                /\ account.name = s.via.name /\ account.email = s.via.email
                                /\ account.password = s.by
                                /\ s.via.guest \in {None, s.user}
                          [] s.via.op = "login" ->
                                s.user \in Matches(s.via.name) /\ account.password = s.via.password
                          [] s.via.op = "redeem" ->
                                /\ tokens[s.via.token].user = s.user
                                /\ \A r \in minted : r.via = s.via => r.by = s.by
                          [] OTHER -> account.guest \/ account.password \in Calls
    BY DEF SessionsEarned
  <2>2. Earned(s.user, s.by, s.via) /\ s.user \in Users
    BY <2>1 DEF IInv, SessionsSound, TypeOK
  <2>3. ASSUME s.via.op = "redeem", NEW r \in minted, r.via = s.via PROVE r.by = s.by
    BY <2>1, <2>3 DEF IInv, TokensOnce, SameToken
  <2>4. users[s.user].guest \/ users[s.user].password \in Calls
    BY <2>1, <2>2 DEF IInv, RowsSound, RowSound, Earned
  <2>5. CASE s.via.op = "register"
    BY <2>2, <2>5 DEF Earned
  <2>6. CASE s.via.op = "login"
    BY <2>2, <2>6 DEF Earned
  <2>7. CASE s.via.op = "redeem"
    BY <2>2, <2>3, <2>7 DEF Earned
  <2>8. CASE s.via.op \notin {"register", "login", "redeem"}
    BY <2>4, <2>8
  <2>9. QED
    BY <2>5, <2>6, <2>7, <2>8
<1>2. QED
  BY <1>1, AccountsInductive, PTL
=============================================================================
