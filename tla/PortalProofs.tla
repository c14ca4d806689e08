---------------------------- MODULE PortalProofs ----------------------------
(***************************************************************************)
(* The portal for every set of users, requests, messages and devices.      *)
(* Accounts are safe because user_update counts the administrators after   *)
(* it locked them, and as long as the rows a handler read are the rows it  *)
(* overwrites.  The badge is true because the newest cutoff is a maximum   *)
(* of times that have passed, and every new cutoff marks what it hides.    *)
(***************************************************************************)
EXTENDS Portal, NaturalsInduction, WellFoundedInduction, TLAPS

-----------------------------------------------------------------------------
(* Accounts. *)

AccountShapes ==
    /\ user \in [Users -> User]
    /\ session \subseteq Users
    /\ outdated \in BOOLEAN
    /\ request \in [Requests -> Request]

\* A user who is not there is not active.
AbsentIsBlank == ~outdated => \A u \in Users : ~user[u].row => ~user[u].active

\* A page that is about to write has read a row that was there and not deleted.
PagesHaveRead ==
    \A r \in Requests :
        request[r].pc \in {"update", "delete"} =>
            /\ request[r].on \in Users
            /\ request[r].was \in User /\ request[r].was.row /\ ~request[r].was.deleted

AInv == AccountShapes /\ AbsentIsBlank /\ PagesHaveRead /\ AdminRemains

\* What messages and pushes do to accounts: nothing, but that a page may have answered.
Aside == /\ UNCHANGED <<user, session, outdated>>
         /\ request' = request \/ \E r \in Requests : Answer(r)

LEMMA AccountsFirst == Init => AInv
  <1> SUFFICES ASSUME NEW start \in Start, AccountInit(start) PROVE AInv
    BY DEF Init
  <1>1. AccountShapes
    <2>1. user \in [Users -> User]
      BY DEF AccountInit, User, Roles
    <2>2. Idle \in Request
      BY DEF Request, Idle, Roles
    <2>3. request \in [Requests -> Request]
      BY <2>2, Zenon DEF AccountInit
    <2>4. session \subseteq Users /\ outdated \in BOOLEAN
      BY UsersAssumption, Zenon DEF AccountInit
    <2> QED
      BY <2>1, <2>3, <2>4 DEF AccountShapes
  <1>2. AbsentIsBlank
    BY DEF AccountInit, AbsentIsBlank
  <1>3. PagesHaveRead
    BY DEF AccountInit, PagesHaveRead, Idle
  <1>4. AdminRemains
    <2>1. PICK u \in Administrators : u \in Users
      BY UsersAssumption
    <2>2. user[u].active /\ user[u].role = "admin"
      BY <2>1 DEF AccountInit
    <2>3. ActiveAdmins # {}
      BY <2>1, <2>2 DEF ActiveAdmins
    <2>4. \A v \in Users : ~user[v].deleted
      BY DEF AccountInit
    <2> QED
      BY <2>3, <2>4 DEF AdminRemains
  <1> QED
    BY <1>1, <1>2, <1>3, <1>4 DEF AInv

\* Requests that are answered keep their shape, and those that stay have read what they read.
LEMMA Answered ==
    ASSUME AccountShapes, PagesHaveRead, request' = request \/ \E r \in Requests : Answer(r)
    PROVE  request' \in [Requests -> Request] /\ PagesHaveRead'
  <1>1. Idle \in Request /\ Idle.pc = "idle"
    BY DEF Idle, Request, Roles
  <1>2. CASE request' = request
    BY <1>2 DEF AccountShapes, PagesHaveRead
  <1>3. CASE \E r \in Requests : Answer(r)
    <2> PICK r \in Requests : Answer(r)
      BY <1>3
    <2>1. \A x \in Requests : request'[x] = IF x = r THEN Idle ELSE request[x]
      BY DEF Answer, AccountShapes
    <2>2. request' \in [Requests -> Request]
      BY <1>1 DEF Answer, AccountShapes
    <2> HIDE DEF Idle
    <2> QED
      BY <1>1, <2>1, <2>2 DEF PagesHaveRead
  <1> QED
    BY <1>2, <1>3

LEMMA AsideIsHarmless == AInv /\ Aside => AInv'
  <1> SUFFICES ASSUME AInv, Aside PROVE AInv'
    OBVIOUS
  <1>1. request' \in [Requests -> Request] /\ PagesHaveRead'
    BY Answered DEF AInv, Aside
  <1>2. AccountShapes' /\ AbsentIsBlank'
    BY <1>1 DEF AInv, Aside, AccountShapes, AbsentIsBlank
  <1>3. AdminRemains'
    BY DEF AInv, Aside, AdminRemains, ActiveAdmins
  <1> QED
    BY <1>1, <1>2, <1>3 DEF AInv
\* A request that is written: it has the shape of one and has read what it will overwrite.
LEMMA Written ==
    ASSUME AccountShapes, PagesHaveRead, NEW r \in Requests, NEW q \in Request,
           request' = [request EXCEPT ![r] = q],
           q.pc \in {"update", "delete"} => q.on \in Users /\ q.was \in User /\ q.was.row /\ ~q.was.deleted
    PROVE  request' \in [Requests -> Request] /\ PagesHaveRead'
  <1>1. request' \in [Requests -> Request]
    BY DEF AccountShapes
  <1>2. \A x \in Requests : request'[x] = IF x = r THEN q ELSE request[x]
    BY DEF AccountShapes
  <1> QED
    BY <1>1, <1>2 DEF PagesHaveRead

\* Steps that leave the users as they are, and give a session to active ones only.
LEMMA RightsStay ==
    ASSUME AInv, user' = user, outdated' = outdated,
           session' \subseteq session \cup {u \in Users : user[u].active},
           request' \in [Requests -> Request], PagesHaveRead'
    PROVE  AInv'
  <1>1. AccountShapes' /\ AbsentIsBlank'
    BY DEF AInv, AccountShapes, AbsentIsBlank
  <1>2. AdminRemains'
    <2> SUFFICES ASSUME ~outdated
                 PROVE  /\ ActiveAdmins' # {}
                        /\ \A u \in Users : user'[u].deleted => ~user'[u].active /\ u \notin session'
      BY DEF AdminRemains
    <2>1. ActiveAdmins' = ActiveAdmins
      BY DEF ActiveAdmins
    <2> QED
      BY <2>1 DEF AInv, AdminRemains
  <1> QED
    BY <1>1, <1>2 DEF AInv

LEMMA SigningInIsSafe ==
    ASSUME AInv, NEW u \in Users,
           Login(u) \/ LoginFails(u) \/ BlockExpires(u) \/ SessionExpires(u)
    PROVE  AInv'
  <1>1. user' = user /\ outdated' = outdated /\ request' = request
    BY DEF Login, LoginFails, BlockExpires, SessionExpires
  <1>2. session' \subseteq session \cup {v \in Users : user[v].active}
    BY DEF Login, LoginFails, BlockExpires, SessionExpires, Admitted
  <1>3. request' \in [Requests -> Request] /\ PagesHaveRead'
    BY <1>1, Answered DEF AInv
  <1> QED
    BY <1>1, <1>2, <1>3, RightsStay

LEMMA AuthoriseIsSafe ==
    ASSUME AInv, NEW r \in Requests, NEW u \in Users, Authorise(r, u)
    PROVE  AInv'
  <1>1. user' = user /\ outdated' = outdated /\ session' \subseteq session
    BY DEF Authorise
  <1>2. request' \in [Requests -> Request] /\ PagesHaveRead'
    <2>1. CASE user[u].active
      <3> DEFINE q == [Idle EXCEPT !.pc = "authorised", !.by = u, !.admin = user[u].role = "admin"]
      <3>1. request' = [request EXCEPT ![r] = q]
        BY <2>1 DEF Authorise
      <3>2. q \in Request /\ q.pc = "authorised"
        <4> DEFINE chief == user[u].role = "admin"
        <4>1. chief \in BOOLEAN
          OBVIOUS
        <4>2. q = [Idle EXCEPT !.pc = "authorised", !.by = u, !.admin = chief]
          OBVIOUS
        <4> HIDE DEF chief
        <4> QED
          BY <4>1, <4>2 DEF Idle, Request, Roles
      <3> HIDE DEF q
      <3> QED
        BY <3>1, <3>2, Written DEF AInv
    <2>2. CASE ~user[u].active
      BY <2>2, Answered DEF Authorise, AInv
    <2> QED
      BY <2>1, <2>2
  <1> QED
    BY <1>1, <1>2, RightsStay

LEMMA PagesOfUsersAreSafe ==
    ASSUME AInv, NEW r \in Requests, NEW u \in Users,
           \/ UserPassword(r, u) \/ UserUnblock(r, u) \/ LoginBlockDelete(r, u)
           \/ Logout(r) \/ ViewPage(r)
    PROVE  AInv'
  <1>1. user' = user /\ outdated' = outdated /\ session' \subseteq session /\ Answer(r)
    BY DEF UserPassword, UserUnblock, LoginBlockDelete, Logout, ViewPage, Revoked, rest
  <1>2. request' \in [Requests -> Request] /\ PagesHaveRead'
    BY <1>1, Answered DEF AInv
  <1> QED
    BY <1>1, <1>2, RightsStay

\* The first half of user_update and of user_delete.
LEMMA ReadingIsSafe ==
    ASSUME AInv, NEW r \in Requests, NEW u \in Users,
           \/ \E role \in Roles, active \in BOOLEAN : UserUpdateRead(r, u, role, active)
           \/ UserDeleteRead(r, u)
    PROVE  AInv'
  <1>1. user' = user /\ outdated' = outdated /\ session' = session
    BY DEF UserUpdateRead, UserDeleteRead, rest
  <1>2. user[u] \in User /\ user[u].row /\ ~user[u].deleted /\ request[r] \in Request
    BY DEF UserUpdateRead, UserDeleteRead, Known, AInv, AccountShapes
  <1>3. \E q \in Request : /\ request' = [request EXCEPT ![r] = q]
                           /\ q.on = u /\ q.was = user[u]
    <2>1. ASSUME NEW role \in Roles, NEW active \in BOOLEAN, UserUpdateRead(r, u, role, active)
          PROVE  \E q \in Request : /\ request' = [request EXCEPT ![r] = q]
                                    /\ q.on = u /\ q.was = user[u]
      <3> DEFINE q == [request[r] EXCEPT !.pc = "update", !.on = u, !.was = user[u],
                                         !.role = role, !.active = active]
      <3>1. request' = [request EXCEPT ![r] = q]
        BY <2>1 DEF UserUpdateRead, AInv, AccountShapes
      <3>2. q \in Request /\ q.on = u /\ q.was = user[u]
        BY <1>2 DEF Request
      <3> QED
        BY <3>1, <3>2
    <2>2. ASSUME UserDeleteRead(r, u)
          PROVE  \E q \in Request : /\ request' = [request EXCEPT ![r] = q]
                                    /\ q.on = u /\ q.was = user[u]
      <3> DEFINE q == [request[r] EXCEPT !.pc = "delete", !.on = u, !.was = user[u]]
      <3>1. request' = [request EXCEPT ![r] = q]
        BY <2>2 DEF UserDeleteRead, AInv, AccountShapes
      <3>2. q \in Request /\ q.on = u /\ q.was = user[u]
        BY <1>2 DEF Request
      <3> QED
        BY <3>1, <3>2
    <2> QED
      BY <2>1, <2>2
  <1>4. request' \in [Requests -> Request] /\ PagesHaveRead'
    BY <1>2, <1>3, Written DEF AInv
  <1> QED
    BY <1>1, <1>4, RightsStay

\* A new user is an active user where there was none.
LEMMA CreatingIsSafe ==
    ASSUME AInv, NEW r \in Requests, NEW u \in Users, NEW role \in Roles, UserCreate(r, u, role)
    PROVE  AInv'
  <1>1. session' = session /\ outdated' = outdated /\ Answer(r) /\ (~outdated => ~user[u].active)
    BY DEF UserCreate, rest, AInv, AbsentIsBlank
  <1>2. request' \in [Requests -> Request] /\ PagesHaveRead'
    BY <1>1, Answered DEF AInv
  <1>3. NewUser(role) \in User /\ NewUser(role).row /\ ~NewUser(role).deleted
    BY DEF NewUser, User
  <1>4. \A v \in Users : user'[v] = IF v = u THEN NewUser(role) ELSE user[v]
    BY DEF UserCreate, AInv, AccountShapes
  <1>5. AccountShapes' /\ AbsentIsBlank'
    <2>1. user' \in [Users -> User]
      BY <1>3 DEF UserCreate, AInv, AccountShapes
    <2> QED
      BY <1>1, <1>2, <1>3, <1>4, <2>1 DEF AInv, AccountShapes, AbsentIsBlank
  <1>6. AdminRemains'
    <2> SUFFICES ASSUME ~outdated
                 PROVE  /\ ActiveAdmins' # {}
                        /\ \A v \in Users : user'[v].deleted => ~user'[v].active /\ v \notin session'
      BY <1>1 DEF AdminRemains
    <2>1. ActiveAdmins \subseteq ActiveAdmins'
      BY <1>1, <1>4 DEF ActiveAdmins
    <2> QED
      BY <1>1, <1>3, <1>4, <2>1 DEF AInv, AdminRemains
  <1> QED
    BY <1>2, <1>5, <1>6 DEF AInv

\* The second half of user_update: the administrators are counted under their lock.
LEMMA UpdatingIsSafe ==
    ASSUME AInv, NEW r \in Requests, UserUpdateWrite(r)
    PROVE  AInv'
  <1> DEFINE q == request[r]
             u == q.on
             x == [user[u] EXCEPT !.role = IF q.role # q.was.role THEN q.role ELSE @,
                                  !.active = IF q.active # q.was.active THEN q.active ELSE @]
  <1>1. /\ q \in Request /\ q.pc = "update" /\ u \in Users /\ q.was \in User
        /\ q.was.row /\ ~q.was.deleted
    BY DEF UserUpdateWrite, AInv, AccountShapes, PagesHaveRead
  <1>2. Answer(r)
    BY DEF UserUpdateWrite
  <1>3. request' \in [Requests -> Request] /\ PagesHaveRead'
    BY <1>2, Answered DEF AInv
  <1>4. CASE ~MayUpdate(q)
    BY <1>2, <1>3, <1>4, AsideIsHarmless DEF UserUpdateWrite, Aside
  <1>5. CASE MayUpdate(q)
    <2>1. user' = [user EXCEPT ![u] = x]
      BY <1>1, <1>5 DEF UserUpdateWrite, AInv, AccountShapes
    <2>2. /\ session' = IF q.active THEN session ELSE Revoked(u)
          /\ outdated' = (outdated \/ user[u] # q.was)
      BY <1>5 DEF UserUpdateWrite
    <2>3. user[u] \in User /\ q.role \in Roles /\ q.active \in BOOLEAN
      BY <1>1 DEF Request, AInv, AccountShapes
    <2>4. /\ x \in User /\ x.row = user[u].row /\ x.deleted = user[u].deleted
          /\ user[u] = q.was => x.role = q.role /\ x.active = q.active
      BY <1>1, <2>3 DEF User
    <2> HIDE DEF x
    <2>5. user' \in [Users -> User] /\ \A v \in Users : user'[v] = IF v = u THEN x ELSE user[v]
      BY <2>1, <2>4 DEF AInv, AccountShapes
    <2>6. session' \subseteq session /\ (~q.active => u \notin session')
      BY <2>2 DEF Revoked
    <2>7. AccountShapes' /\ AbsentIsBlank'
      BY <1>1, <1>3, <2>2, <2>4, <2>5, <2>6 DEF AInv, AccountShapes, AbsentIsBlank
    <2>8. AdminRemains'
      <3> SUFFICES ASSUME ~outdated, user[u] = q.was
                   PROVE  /\ ActiveAdmins' # {}
                          /\ \A v \in Users : user'[v].deleted => ~user'[v].active /\ v \notin session'
        BY <2>2 DEF AdminRemains
      <3>1. \A v \in Users : user'[v].deleted => ~user'[v].active /\ v \notin session'
        BY <1>1, <2>4, <2>5, <2>6 DEF AInv, AdminRemains
      <3>2. ActiveAdmins # {}
        BY DEF AInv, AdminRemains
      <3>3. ActiveAdmins \ {u} \subseteq ActiveAdmins'
        BY <2>5 DEF ActiveAdmins
      <3>4. CASE RemovesAdmin(q)
        BY <1>5, <3>1, <3>3, <3>4 DEF MayUpdate
      <3>5. CASE ~RemovesAdmin(q)
        <4>1. u \in ActiveAdmins => u \in ActiveAdmins'
          BY <1>1, <2>3, <2>4, <2>5, <3>5 DEF ActiveAdmins, RemovesAdmin
        <4> QED
          BY <3>1, <3>2, <3>3, <4>1
      <3> QED
        BY <3>1, <3>4, <3>5
    <2> QED
      BY <1>3, <2>7, <2>8 DEF AInv
  <1> QED
    BY <1>4, <1>5

\* The second half of user_delete, which remembers whether what it read still holds.
LEMMA DeletingIsSafe ==
    ASSUME AInv, NEW r \in Requests, UserDeleteWrite(r)
    PROVE  AInv'
  <1> DEFINE q == request[r]
             u == q.on
             x == [user[u] EXCEPT !.deleted = TRUE,
                                  !.active = IF q.was.active THEN FALSE ELSE @]
  <1>1. u \in Users /\ q.was.row
    BY DEF UserDeleteWrite, AInv, PagesHaveRead
  <1>2. user' = [user EXCEPT ![u] = x] /\ Answer(r)
    BY <1>1 DEF UserDeleteWrite, AInv, AccountShapes
  <1>3. request' \in [Requests -> Request] /\ PagesHaveRead'
    BY <1>2, Answered DEF AInv
  <1>4. /\ session' = Revoked(u)
        /\ outdated' = (outdated \/ user[u] # q.was \/ ActiveAdmins = {u})
    BY DEF UserDeleteWrite
  <1>5. x \in User /\ x.row = user[u].row /\ (user[u] = q.was => ~x.active)
    BY <1>1 DEF User, AInv, AccountShapes
  <1> HIDE DEF x
  <1>6. user' \in [Users -> User] /\ \A v \in Users : user'[v] = IF v = u THEN x ELSE user[v]
    BY <1>1, <1>2, <1>5 DEF AInv, AccountShapes
  <1>7. AccountShapes' /\ AbsentIsBlank'
    BY <1>1, <1>3, <1>4, <1>5, <1>6 DEF AInv, AccountShapes, AbsentIsBlank, Revoked
  <1>8. AdminRemains'
    <2> SUFFICES ASSUME ~outdated, user[u] = q.was, ActiveAdmins # {u}
                 PROVE  /\ ActiveAdmins' # {}
                        /\ \A v \in Users : user'[v].deleted => ~user'[v].active /\ v \notin session'
      BY <1>4 DEF AdminRemains
    <2>1. ActiveAdmins \ {u} \subseteq ActiveAdmins' /\ ActiveAdmins \ {u} # {}
      BY <1>6 DEF ActiveAdmins, AInv, AdminRemains
    <2> QED
      BY <1>4, <1>5, <1>6, <2>1 DEF AInv, AdminRemains, Revoked
  <1> QED
    BY <1>3, <1>7, <1>8 DEF AInv
-----------------------------------------------------------------------------
(* The pages and tasks of Messaging change no account. *)

LEMMA ChatIsAside ==
    ASSUME NEW r \in Requests, NEW u \in Users, ChatPage(r, u)
    PROVE  Aside /\ Answer(r)
  BY DEF ChatPage, OpenChat, SendMessage, DeleteConversation, RequestDeletion, RestoreHistory,
         DecideRead, Asks, AccountsStay, rest, Aside

LEMMA NoticesAreAside ==
    ASSUME NEW r \in Requests, NEW u \in Users, NoticePage(r, u)
    PROVE  Aside /\ Answer(r)
  BY DEF NoticePage, NoticeRead, NoticeDelete, NoticesReadAll, NoticesDeleteRead,
         NoticesDeleteAll, Preferences, Asks, AccountsStay, rest, Aside

LEMMA PushesAreAside ==
    ASSUME NEW r \in Requests, PushPage(r)
    PROVE  Aside /\ Answer(r)
  BY DEF PushPage, Subscribe, Unsubscribe, PushTest, ToggleExternal, Asks, AccountsStay,
         rest, Aside

LEMMA BackgroundIsAside ==
    ASSUME Background
    PROVE  Aside /\ request' = request
  BY DEF Background, CommitMessage, DecideWrite, CreateNotices, NextPush, Mail, LoadPush,
         DeliverPush, AccountsStay, rest, Aside

LEMMA AccountsInductive == AInv /\ [Next]_vars => AInv'
  <1> SUFFICES ASSUME AInv, [Next]_vars PROVE AInv'
    OBVIOUS
  <1>1. CASE AccountStep
    <2>1. CASE \E u \in Users : \/ Login(u) \/ LoginFails(u)
                                \/ BlockExpires(u) \/ SessionExpires(u)
      BY <2>1, SigningInIsSafe
    <2>2. CASE \E r \in Requests, u \in Users : Authorise(r, u)
      BY <2>2, AuthoriseIsSafe
    <2>3. CASE \E r \in Requests, u \in Users :
                 \/ UserPassword(r, u) \/ UserUnblock(r, u) \/ LoginBlockDelete(r, u)
                 \/ Logout(r) \/ ViewPage(r)
      BY <2>3, PagesOfUsersAreSafe
    <2>4. CASE \E r \in Requests, u \in Users :
                 \/ \E role \in Roles, active \in BOOLEAN : UserUpdateRead(r, u, role, active)
                 \/ UserDeleteRead(r, u)
      BY <2>4, ReadingIsSafe
    <2>5. CASE \E r \in Requests, u \in Users, role \in Roles : UserCreate(r, u, role)
      BY <2>5, CreatingIsSafe
    <2>6. CASE \E r \in Requests : UserUpdateWrite(r)
      BY <2>6, UpdatingIsSafe
    <2>7. \E u \in Users : TRUE
      BY UsersAssumption
    <2> QED
      BY <1>1, <2>1, <2>2, <2>3, <2>4, <2>5, <2>6, <2>7 DEF AccountStep, AccountNext
  <1>2. CASE \E r \in Requests : DeleteUser(r)
    BY <1>2, DeletingIsSafe DEF DeleteUser
  <1>3. CASE \E r \in Requests, u \in Users : ChatPage(r, u) \/ NoticePage(r, u)
    BY <1>3, ChatIsAside, NoticesAreAside, AsideIsHarmless
  <1>4. CASE \E r \in Requests : PushPage(r)
    BY <1>4, PushesAreAside, AsideIsHarmless
  <1>5. CASE Background
    BY <1>5, BackgroundIsAside, AsideIsHarmless
  <1>6. CASE UNCHANGED vars
    <2>1. Aside
      BY <1>6 DEF vars, accountVars, Aside
    <2> QED
      BY <2>1, AsideIsHarmless
  <1> QED
    BY <1>1, <1>2, <1>3, <1>4, <1>5, <1>6 DEF Next

\* As long as no page overwrote a row that had changed since it was read, an active
\* administrator remains, and a deleted user is inactive and has no session: user_update
\* counts the administrators it has locked.
THEOREM SomebodyAdministers == Spec => []AdminRemains
  <1>1. AInv => AdminRemains
    BY DEF AInv
  <1> QED
    BY AccountsFirst, AccountsInductive, <1>1, PTL DEF Spec
-----------------------------------------------------------------------------
(* The chat. *)

MessageRow == [state: {"none", "flushed", "stored", "gone"},
               from: Somebody, to: Somebody, at: Nat, read: BOOLEAN]
DeletionRow == [state: {"none", "pending", "confirmed", "rejected", "restored", "gone"},
                by: Somebody, peer: Somebody, cutoff: Nat]

\* Nothing is stamped with a time that has not come.
ChatShapes ==
    /\ clock \in Nat
    /\ message \in [Messages -> MessageRow]
    /\ \A m \in Messages : message[m].at <= clock /\ (message[m].state # "none" => message[m].at > 0)
    /\ deletion \in [Deletions -> DeletionRow]
    /\ \A d \in Deletions : deletion[d].cutoff <= clock
    /\ requestNotice \in [Deletions -> Notice]
    /\ deciding \subseteq [on: Deletions, confirm: BOOLEAN]

Unread(m) == message[m].state = "stored" /\ ~message[m].read

\* An unread message is younger than each cutoff of its recipient.
UnreadIsFound ==
    \A m \in Messages, d \in Deletions :
        Unread(m) /\ m \notin late /\ Hides(d, message[m].to, message[m].from)
            => message[m].at > deletion[d].cutoff

NoticeOfPending ==
    \A d \in Deletions : requestNotice[d] = "unread" => deletion[d].state = "pending"

ChatInv == ChatShapes /\ UnreadIsFound /\ NoticeOfPending

-----------------------------------------------------------------------------
(* The newest cutoff. *)

Less == OpToRel(<, Nat)

LEMMA LeastElement ==
    ASSUME NEW S \in SUBSET Nat, S # {}
    PROVE  \E i \in S : \A j \in S : i <= j
  <1>1. IsWellFoundedOn(Less, Nat)
    BY NatLessThanWellFounded DEF Less
  <1>2. \A p, q \in Nat : <<p, q>> \notin Less => q <= p
    <2>1. \A p, q \in Nat : p < q => <<p, q>> \in Less
      BY DEF Less, OpToRel
    <2> QED
      BY <2>1
  <1> HIDE DEF Less
  <1>3. \E i \in S : \A j \in S : ~(<<j, i>> \in Less)
    BY <1>1, WFMin
  <1> QED
    BY <1>2, <1>3

\* A set of times that have passed has a last one, and MaxOf is that one.
LEMMA MaxOfProperties ==
    ASSUME NEW k \in Nat, NEW S \in SUBSET (0 .. k), S # {}
    PROVE  MaxOf(S) \in S /\ \A y \in S : y <= MaxOf(S)
  <1> DEFINE T == {k - x : x \in S}
  <1>1. T \in SUBSET Nat /\ T # {}
    <2>1. \A x \in 0 .. k : k - x \in Nat
      OBVIOUS
    <2> QED
      BY <2>1
  <1>2. PICK i \in T : \A j \in T : i <= j
    BY <1>1, LeastElement
  <1>3. PICK x \in S : i = k - x
    BY <1>2
  <1>4. \A y \in S : y <= x
    <2> TAKE y \in S
    <2>1. k - x <= k - y
      BY <1>2, <1>3
    <2> QED
      BY <2>1
  <1> QED
    BY <1>4 DEF MaxOf

LEMMA CutoffProperties ==
    ASSUME ChatShapes, NEW u, NEW p
    PROVE  /\ Cutoff(u, p) = 0 \/ \E d \in Deletions : Hides(d, u, p) /\ Cutoff(u, p) = deletion[d].cutoff
           /\ Cutoff(u, p) \in Nat
           /\ \A d \in Deletions : Hides(d, u, p) => deletion[d].cutoff <= Cutoff(u, p)
  <1> DEFINE S == {0} \cup {deletion[d].cutoff : d \in {x \in Deletions : Hides(x, u, p)}}
  <1>1. S \in SUBSET (0 .. clock) /\ S # {}
    BY DEF ChatShapes, DeletionRow
  <1>2. MaxOf(S) \in S /\ \A y \in S : y <= MaxOf(S)
    BY <1>1, MaxOfProperties DEF ChatShapes
  <1>3. Cutoff(u, p) = MaxOf(S)
    BY DEF Cutoff
  <1> HIDE DEF MaxOf
  <1>4. Cutoff(u, p) \in S /\ \A y \in S : y <= Cutoff(u, p)
    BY <1>2, <1>3
  <1>5. Cutoff(u, p) = 0 \/ \E d \in Deletions : Hides(d, u, p) /\ Cutoff(u, p) = deletion[d].cutoff
    BY <1>4
  <1>6. Cutoff(u, p) \in Nat
    BY <1>1, <1>4 DEF ChatShapes
  <1>7. \A d \in Deletions : Hides(d, u, p) => deletion[d].cutoff \in S
    OBVIOUS
  <1> HIDE DEF S
  <1> QED
    BY <1>4, <1>5, <1>6, <1>7

LEMMA BadgeFollows == ChatInv => BadgeIsTrue
  <1> SUFFICES ASSUME ChatInv PROVE BadgeIsTrue
    OBVIOUS
  <1>1. ASSUME NEW m \in Messages, Unread(m), m \notin late
        PROVE  message[m].at > Cutoff(message[m].to, message[m].from)
    <2>1. message[m].at \in Nat /\ message[m].at > 0
      BY <1>1 DEF ChatInv, ChatShapes, MessageRow, Unread
    <2> QED
      BY <1>1, <2>1, CutoffProperties DEF ChatInv, UnreadIsFound
  <1> QED
    BY <1>1 DEF ChatInv, NoticeOfPending, BadgeIsTrue, Unread

LEMMA ChatFirst == Init => ChatInv
  <1> SUFFICES ASSUME NEW start \in Start, MessagingInit(start) PROVE ChatInv
    BY DEF Init
  <1>1. start.asked \in BOOLEAN
    BY StartAssumption
  <1>2. First.from \in Users /\ First.to \in Users
    BY FirstAssumption, UsersAssumption
  <1>3. clock \in Nat /\ clock > 0 /\ (start.asked => clock = 2)
    BY DEF MessagingInit
  <1>4. \A m \in Messages : message[m] \in MessageRow
    BY <1>1, <1>2 DEF MessagingInit, MessageRow, Somebody
  <1>5. \A m \in Messages : message[m].at <= clock /\ (message[m].state # "none" => message[m].at > 0)
    BY <1>3 DEF MessagingInit
  <1>6. \A d \in Deletions : /\ deletion[d] \in DeletionRow
                             /\ deletion[d].cutoff <= clock
                             /\ requestNotice[d] \in Notice
                             /\ requestNotice[d] = "unread" => deletion[d].state = "pending"
    BY <1>1, <1>2, <1>3 DEF MessagingInit, DeletionRow, Somebody, Notice
  <1>7. /\ message = [m \in Messages |-> message[m]]
        /\ deletion = [d \in Deletions |-> deletion[d]]
        /\ requestNotice = [d \in Deletions |-> requestNotice[d]]
    BY DEF MessagingInit
  <1>8. ChatShapes
    <2>1. deciding = {}
      BY DEF MessagingInit
    <2>2. /\ message \in [Messages -> MessageRow]
          /\ deletion \in [Deletions -> DeletionRow]
          /\ requestNotice \in [Deletions -> Notice]
      BY <1>4, <1>6, <1>7, Zenon
    <2> QED
      BY <1>3, <1>5, <1>6, <2>1, <2>2 DEF ChatShapes
  <1>9. UnreadIsFound
    <2> SUFFICES ASSUME NEW m \in Messages, NEW d \in Deletions, Unread(m),
                        Hides(d, message[m].to, message[m].from)
                 PROVE  FALSE
      BY DEF UnreadIsFound
    <2> QED
      BY DEF MessagingInit, Unread, Hides
  <1> QED
    BY <1>6, <1>8, <1>9 DEF ChatInv, NoticeOfPending
-----------------------------------------------------------------------------
(* What steps do to messages and requests. *)

\* Messages are read or erased, and nothing else.
Fades == /\ message' \in [Messages -> MessageRow]
         /\ \A m \in Messages :
              /\ message'[m].from = message[m].from /\ message'[m].to = message[m].to
              /\ message'[m].at = message[m].at
              /\ message'[m].state # "none" => message[m].state # "none"
              /\ Unread(m)' => Unread(m)

\* Requests are answered, and none hides what it did not hide.
Eases == /\ deletion' \in [Deletions -> DeletionRow]
         /\ \A d \in Deletions :
              /\ deletion'[d].cutoff = deletion[d].cutoff
              /\ \A u, p : Hides(d, u, p)' => Hides(d, u, p)

LEMMA ReadingFades == ASSUME ChatShapes, NEW S, message' = ReadBy(S) PROVE Fades
  <1>1. \A m \in Messages : message'[m] = [message[m] EXCEPT !.read = @ \/ m \in S]
    BY DEF ReadBy
  <1>2. ASSUME NEW m \in Messages, NEW w \in MessageRow, NEW b \in BOOLEAN
        PROVE  /\ [w EXCEPT !.read = b] \in MessageRow
               /\ [w EXCEPT !.read = b].from = w.from /\ [w EXCEPT !.read = b].to = w.to
               /\ [w EXCEPT !.read = b].at = w.at /\ [w EXCEPT !.read = b].state = w.state
               /\ [w EXCEPT !.read = b].read = b
    BY DEF MessageRow
  <1>3. ASSUME NEW m \in Messages
        PROVE  /\ message'[m] \in MessageRow
               /\ message'[m].from = message[m].from /\ message'[m].to = message[m].to
               /\ message'[m].at = message[m].at /\ message'[m].state = message[m].state
               /\ message'[m].read = (message[m].read \/ m \in S)
    <2> DEFINE b == message[m].read \/ m \in S
    <2>1. message[m] \in MessageRow /\ b \in BOOLEAN
      BY DEF ChatShapes
    <2>2. message'[m] = [message[m] EXCEPT !.read = b]
      BY <1>1
    <2>3. message'[m].read = b
      BY <1>2, <2>1, <2>2, Zenon
    <2> HIDE DEF b
    <2>4. /\ message'[m] \in MessageRow
          /\ message'[m].from = message[m].from /\ message'[m].to = message[m].to
          /\ message'[m].at = message[m].at /\ message'[m].state = message[m].state
      BY <1>2, <2>1, <2>2
    <2> QED
      BY <2>3, <2>4 DEF b
  <1>4. message' = [m \in Messages |-> message'[m]]
    BY DEF ReadBy
  <1>5. message' \in [Messages -> MessageRow]
    BY <1>3, <1>4, Zenon
  <1> QED
    BY <1>3, <1>5 DEF Fades, Unread

LEMMA ErasingFades ==
    ASSUME ChatShapes, NEW S, message' = Erased(S),
           \A m \in Messages : m \in S => message[m].state = "stored"
    PROVE  Fades
  <1>1. ASSUME NEW m \in Messages
        PROVE  /\ message'[m] \in MessageRow
               /\ message'[m].from = message[m].from /\ message'[m].to = message[m].to
               /\ message'[m].at = message[m].at
               /\ message'[m].read = message[m].read
               /\ message'[m].state = IF m \in S THEN "gone" ELSE message[m].state
    BY DEF Erased, ChatShapes, MessageRow
  <1>2. message' = [m \in Messages |-> message'[m]]
    BY DEF Erased
  <1>3. message' \in [Messages -> MessageRow]
    BY <1>1, <1>2, Zenon
  <1> QED
    BY <1>1, <1>3 DEF Fades, Unread
LEMMA StayingFades ==
    ASSUME ChatShapes
    PROVE  /\ message' = message => Fades
           /\ deletion' = deletion => Eases
  BY DEF ChatShapes, Fades, Eases, Unread, Hides

LEMMA DroppingEases == ASSUME ChatShapes, NEW S, deletion' = Dropped(S) PROVE Eases
  <1>1. ASSUME NEW d \in Deletions
        PROVE  /\ deletion'[d] \in DeletionRow
               /\ deletion'[d].by = deletion[d].by /\ deletion'[d].peer = deletion[d].peer
               /\ deletion'[d].cutoff = deletion[d].cutoff
               /\ deletion'[d].state \in {"gone", deletion[d].state}
    BY DEF Dropped, ChatShapes, DeletionRow
  <1>2. deletion' = [d \in Deletions |-> deletion'[d]]
    BY DEF Dropped
  <1>3. deletion' \in [Deletions -> DeletionRow]
    BY <1>1, <1>2, Zenon
  <1> QED
    BY <1>1, <1>3 DEF Eases, Hides

\* The history stays as hidden as it was.
LEMMA Easing ==
    ASSUME ChatInv, Fades, Eases, clock' = clock, late \subseteq late',
           requestNotice' \in [Deletions -> Notice],
           deciding' \subseteq [on: Deletions, confirm: BOOLEAN]
    PROVE  ChatShapes' /\ UnreadIsFound'
  <1>1. ChatShapes'
    BY DEF ChatInv, ChatShapes, Fades, Eases
  <1>2. UnreadIsFound'
    <2> SUFFICES ASSUME NEW m \in Messages, NEW d \in Deletions, Unread(m)', m \notin late',
                        Hides(d, message[m].to, message[m].from)'
                 PROVE  message'[m].at > deletion'[d].cutoff
      BY DEF UnreadIsFound
    <2>1. Unread(m) /\ m \notin late /\ Hides(d, message[m].to, message[m].from)
      BY DEF Fades, Eases, Hides
    <2> QED
      BY <2>1 DEF ChatInv, UnreadIsFound, Fades, Eases
  <1> QED
    BY <1>1, <1>2

LEMMA NoticeFacts ==
    ASSUME requestNotice \in [Deletions -> Notice], NEW S
    PROVE  /\ Seen(requestNotice, S) \in [Deletions -> Notice]
           /\ \A d \in Deletions :
                Seen(requestNotice, S)[d] = "unread" => requestNotice[d] = "unread" /\ d \notin S
           /\ Without(requestNotice, S) \in [Deletions -> Notice]
           /\ \A d \in Deletions :
                Without(requestNotice, S)[d] = "unread" => requestNotice[d] = "unread" /\ d \notin S
  BY DEF Seen, Without, Notice

\* Nothing of the chat changes in the pages of users, notices and devices.
LEMMA ChatStays == ChatInv /\ UNCHANGED chatVars => ChatInv'
  BY DEF ChatInv, ChatShapes, UnreadIsFound, NoticeOfPending, Unread, Hides, chatVars

LEMMA OpeningIsTrue ==
    ASSUME ChatInv, NEW r, NEW u, NEW p, OpenChat(r, u, p)
    PROVE  ChatInv'
  <1>1. Fades /\ Eases
    BY ReadingFades, StayingFades DEF OpenChat, ChatInv
  <1>2. requestNotice' \in [Deletions -> Notice] /\ NoticeOfPending'
    BY NoticeFacts DEF OpenChat, ChatInv, ChatShapes, NoticeOfPending
  <1>3. ChatShapes' /\ UnreadIsFound'
    BY <1>1, <1>2, Easing DEF OpenChat, ChatInv, ChatShapes
  <1> QED
    BY <1>2, <1>3 DEF ChatInv

LEMMA ClosingIsTrue ==
    ASSUME ChatInv, NEW r, NEW u, NEW p, DeleteConversation(r, u, p)
    PROVE  ChatInv'
  <1>1. Fades /\ Eases
    <2>1. \A m \in Messages : m \in StoredBetween(u, p) => message[m].state = "stored"
      BY DEF StoredBetween
    <2> QED
      BY <2>1, ErasingFades, DroppingEases DEF DeleteConversation, ChatInv
  <1>2. requestNotice' \in [Deletions -> Notice] /\ NoticeOfPending'
    <2> DEFINE S == RequestsBetween(u, p)
    <2>1. requestNotice' = Without(requestNotice, S) /\ deletion' = Dropped(S)
      BY DEF DeleteConversation
    <2>2. \A d \in Deletions : d \notin S => deletion'[d] = deletion[d]
      BY <2>1 DEF Dropped
    <2> HIDE DEF S
    <2> QED
      BY <2>1, <2>2, NoticeFacts DEF ChatInv, ChatShapes, NoticeOfPending
  <1>3. ChatShapes' /\ UnreadIsFound'
    BY <1>1, <1>2, Easing DEF DeleteConversation, ChatInv, ChatShapes
  <1> QED
    BY <1>2, <1>3 DEF ChatInv

LEMMA CleaningIsTrue ==
    ASSUME ChatInv, NEW u, Cleanup(u)
    PROVE  ChatInv'
  <1> DEFINE S == {d \in Deletions : u \in {deletion[d].by, deletion[d].peer}}
             M == UNION {StoredBetween(u, p) : p \in {v \in Users \ {u} : user[v].deleted}}
  <1>1. /\ requestNotice' = Without(requestNotice, S) /\ deletion' = Dropped(S)
        /\ message' = Erased(M) /\ clock' = clock /\ late' = late /\ deciding' = deciding
    BY DEF Cleanup
  <1>2. \A d \in Deletions : d \notin S => deletion'[d] = deletion[d]
    BY <1>1 DEF Dropped
  <1>3. \A m \in Messages : m \in M => message[m].state = "stored"
    BY DEF StoredBetween
  <1> HIDE DEF S, M
  <1>4. Fades /\ Eases
    BY <1>1, <1>3, ErasingFades, DroppingEases DEF ChatInv
  <1>5. requestNotice' \in [Deletions -> Notice] /\ NoticeOfPending'
    BY <1>1, <1>2, NoticeFacts DEF ChatInv, ChatShapes, NoticeOfPending
  <1>6. ChatShapes' /\ UnreadIsFound'
    BY <1>1, <1>4, <1>5, Easing DEF ChatInv, ChatShapes
  <1> QED
    BY <1>5, <1>6 DEF ChatInv

LEMMA RestoringIsTrue ==
    ASSUME ChatInv, NEW r, NEW u, NEW p, RestoreHistory(r, u, p)
    PROVE  ChatInv'
  <1> DEFINE S == {d \in Deletions : Hides(d, u, p)}
  <1>1. /\ requestNotice' = Seen(requestNotice, S) /\ message' = message
        /\ deletion' = [d \in Deletions |-> IF d \in S THEN [deletion[d] EXCEPT !.state = "restored"]
                                                       ELSE deletion[d]]
        /\ clock' = clock /\ late' = late /\ deciding' = deciding
    BY DEF RestoreHistory
  <1> HIDE DEF S
  <1>2. ASSUME NEW d \in Deletions
        PROVE  /\ deletion'[d] \in DeletionRow
               /\ deletion'[d].by = deletion[d].by /\ deletion'[d].peer = deletion[d].peer
               /\ deletion'[d].cutoff = deletion[d].cutoff
               /\ deletion'[d].state = IF d \in S THEN "restored" ELSE deletion[d].state
    BY <1>1 DEF ChatInv, ChatShapes, DeletionRow
  <1>3. deletion' \in [Deletions -> DeletionRow]
    <2>1. deletion' = [d \in Deletions |-> deletion'[d]]
      BY <1>1
    <2> QED
      BY <1>2, <2>1, Zenon
  <1>4. Eases
    BY <1>2, <1>3 DEF Eases, Hides
  <1>5. Fades
    BY <1>1, StayingFades DEF ChatInv
  <1>6. requestNotice' \in [Deletions -> Notice] /\ NoticeOfPending'
    BY <1>1, <1>2, NoticeFacts DEF ChatInv, ChatShapes, NoticeOfPending
  <1>7. ChatShapes' /\ UnreadIsFound'
    BY <1>1, <1>4, <1>5, <1>6, Easing DEF ChatInv, ChatShapes
  <1> QED
    BY <1>6, <1>7 DEF ChatInv

LEMMA ReadingTheRequestIsTrue ==
    ASSUME ChatInv, NEW r, NEW u, NEW d \in Deletions, NEW confirm \in BOOLEAN,
           DecideRead(r, u, d, confirm)
    PROVE  ChatInv'
  <1>1. Fades /\ Eases
    BY StayingFades DEF DecideRead, ChatInv
  <1>2. ChatShapes' /\ UnreadIsFound'
    BY <1>1, Easing DEF DecideRead, ChatInv, ChatShapes
  <1>3. NoticeOfPending'
    BY DEF DecideRead, ChatInv, NoticeOfPending
  <1> QED
    BY <1>2, <1>3 DEF ChatInv
LEMMA SendingIsTrue ==
    ASSUME ChatInv, NEW r, NEW u \in Users, NEW p \in Users, NEW m \in Messages,
           SendMessage(r, u, p, m)
    PROVE  ChatInv'
  <1> DEFINE w == [state |-> "flushed", from |-> u, to |-> p, at |-> clock + 1, read |-> FALSE]
  <1>1. /\ message' = [message EXCEPT ![m] = w] /\ clock' = clock + 1
        /\ UNCHANGED <<deletion, requestNotice, deciding, late>>
    BY DEF SendMessage
  <1>2. w \in MessageRow /\ w.state = "flushed" /\ w.at = clock + 1
    BY DEF MessageRow, Somebody, ChatInv, ChatShapes
  <1> HIDE DEF w
  <1>3. message' \in [Messages -> MessageRow]
    BY <1>1, <1>2 DEF ChatInv, ChatShapes
  <1>4. \A x \in Messages : message'[x] = IF x = m THEN w ELSE message[x]
    BY <1>1 DEF ChatInv, ChatShapes
  <1>5. ChatShapes'
    <2>1. \A x \in Messages : message[x].at \in Nat
      BY DEF ChatInv, ChatShapes, MessageRow
    <2>2. \A d \in Deletions : deletion[d].cutoff \in Nat
      BY DEF ChatInv, ChatShapes, DeletionRow
    <2>3. clock' \in Nat /\ \A n \in Nat : n <= clock => n <= clock'
      BY <1>1 DEF ChatInv, ChatShapes
    <2>4. \A x \in Messages : /\ message'[x].at <= clock'
                              /\ message'[x].state # "none" => message'[x].at > 0
      <3> TAKE x \in Messages
      <3>1. CASE x = m
        BY <1>1, <1>2, <1>4, <3>1 DEF ChatInv, ChatShapes
      <3>2. CASE x # m
        BY <1>4, <2>1, <2>3, <3>2 DEF ChatInv, ChatShapes
      <3> QED
        BY <3>1, <3>2
    <2> QED
      BY <1>1, <1>3, <2>2, <2>3, <2>4 DEF ChatInv, ChatShapes
  <1>6. UnreadIsFound' /\ NoticeOfPending'
    BY <1>1, <1>2, <1>4 DEF ChatInv, UnreadIsFound, NoticeOfPending, Unread, Hides
  <1> QED
    BY <1>5, <1>6 DEF ChatInv

\* A message that became visible after its recipient hid the history is remembered as late.
LEMMA CommittingIsTrue ==
    ASSUME ChatInv, NEW m \in Messages, CommitMessage(m)
    PROVE  ChatInv'
  <1> DEFINE to == message[m].to
             from == message[m].from
  <1>1. /\ message' = [message EXCEPT ![m].state = "stored"] /\ message[m].state = "flushed"
        /\ late' = IF message[m].at <= Cutoff(to, from) THEN late \cup {m} ELSE late
        /\ UNCHANGED <<deletion, requestNotice, deciding, clock>>
    BY DEF CommitMessage
  <1>2. ASSUME NEW x \in Messages
        PROVE  /\ message'[x] \in MessageRow
               /\ message'[x].from = message[x].from /\ message'[x].to = message[x].to
               /\ message'[x].at = message[x].at /\ message'[x].read = message[x].read
               /\ message'[x].state = IF x = m THEN "stored" ELSE message[x].state
    BY <1>1 DEF ChatInv, ChatShapes, MessageRow
  <1>3. message' \in [Messages -> MessageRow]
    BY <1>1 DEF ChatInv, ChatShapes, MessageRow
  <1>4. ChatShapes'
    BY <1>1, <1>2, <1>3 DEF ChatInv, ChatShapes
  <1>5. UnreadIsFound'
    <2> SUFFICES ASSUME NEW x \in Messages, NEW d \in Deletions, Unread(x)', x \notin late',
                        Hides(d, message[x].to, message[x].from)'
                 PROVE  message'[x].at > deletion'[d].cutoff
      BY DEF UnreadIsFound
    <2>1. Hides(d, message[x].to, message[x].from)
      BY <1>1, <1>2 DEF Hides
    <2>2. CASE x = m
      <3>1. ~(message[m].at <= Cutoff(to, from))
        BY <1>1, <2>2
      <3>2. Cutoff(to, from) \in Nat /\ deletion[d].cutoff <= Cutoff(to, from)
        BY <2>1, <2>2, CutoffProperties DEF ChatInv
      <3>3. message[m].at \in Nat /\ deletion[d].cutoff \in Nat
        BY DEF ChatInv, ChatShapes, MessageRow, DeletionRow
      <3>4. message[m].at > deletion[d].cutoff
        BY <3>1, <3>2, <3>3
      <3> QED
        BY <1>1, <1>2, <2>2, <3>4
    <2>3. CASE x # m
      <3>1. Unread(x) /\ x \notin late
        BY <1>1, <1>2, <2>3 DEF Unread
      <3> QED
        BY <1>1, <1>2, <2>1, <3>1 DEF ChatInv, UnreadIsFound
    <2> QED
      BY <2>2, <2>3
  <1>6. NoticeOfPending'
    BY <1>1 DEF ChatInv, NoticeOfPending
  <1> QED
    BY <1>4, <1>5, <1>6 DEF ChatInv

\* A new cutoff marks every message that it hides.
LEMMA RequestingIsTrue ==
    ASSUME ChatInv, NEW r, NEW u \in Users, NEW p \in Users, NEW d \in Deletions,
           RequestDeletion(r, u, p, d)
    PROVE  ChatInv'
  <1> DEFINE w == [state |-> "pending", by |-> u, peer |-> p, cutoff |-> clock + 1]
  <1>1. /\ deletion' = [deletion EXCEPT ![d] = w] /\ clock' = clock + 1
        /\ message' = ReadBy(Hidden(u, p))
        /\ requestNotice' = [requestNotice EXCEPT ![d] = "unread"]
        /\ UNCHANGED <<deciding, late>>
    BY DEF RequestDeletion
  <1>2. w \in DeletionRow /\ w.state = "pending" /\ w.by = u /\ w.peer = p /\ w.cutoff = clock + 1
    BY DEF DeletionRow, Somebody, ChatInv, ChatShapes
  <1> HIDE DEF w
  <1>3. /\ deletion' \in [Deletions -> DeletionRow]
        /\ \A x \in Deletions : deletion'[x] = IF x = d THEN w ELSE deletion[x]
    BY <1>1, <1>2 DEF ChatInv, ChatShapes
  <1>4. Fades
    BY <1>1, ReadingFades DEF ChatInv
  <1>5. /\ clock' \in Nat /\ \A n \in Nat : n <= clock => n <= clock'
        /\ \A x \in Messages : message[x].at \in Nat
        /\ \A x \in Deletions : deletion[x].cutoff \in Nat
    BY <1>1 DEF ChatInv, ChatShapes, MessageRow, DeletionRow
  <1>6. \A x \in Deletions : deletion'[x].cutoff <= clock'
    <2> TAKE x \in Deletions
    <2>1. CASE x = d
      BY <1>1, <1>2, <1>3, <2>1 DEF ChatInv, ChatShapes
    <2>2. CASE x # d
      BY <1>3, <1>5, <2>2 DEF ChatInv, ChatShapes
    <2> QED
      BY <2>1, <2>2
  <1>7. ChatShapes'
    <2>1. requestNotice' \in [Deletions -> Notice]
      BY <1>1 DEF Notice, ChatInv, ChatShapes
    <2>2. \A x \in Messages : message'[x].at <= clock' /\ (message'[x].state # "none" => message'[x].at > 0)
      BY <1>4, <1>5 DEF ChatInv, ChatShapes, Fades
    <2> QED
      BY <1>1, <1>3, <1>4, <1>5, <1>6, <2>1, <2>2 DEF ChatInv, ChatShapes, Fades
  <1>8. UnreadIsFound'
    <2> SUFFICES ASSUME NEW x \in Messages, NEW y \in Deletions, Unread(x)', x \notin late',
                        Hides(y, message[x].to, message[x].from)'
                 PROVE  message'[x].at > deletion'[y].cutoff
      BY DEF UnreadIsFound
    <2>1. Unread(x)
      BY <1>4 DEF Fades
    <2>2. CASE y = d
      <3>1. message[x].to = u /\ message[x].from = p
        BY <1>2, <1>3, <1>4, <2>2 DEF Hides, Fades
      <3>2. x \in Hidden(u, p)
        BY <2>1, <3>1 DEF Hidden, UnreadFrom, StoredBetween, InConversation, Unread
      <3>3. message'[x].read
        <4>1. message'[x] = [message[x] EXCEPT !.read = @ \/ x \in Hidden(u, p)]
          BY <1>1 DEF ReadBy
        <4>2. [message[x] EXCEPT !.read = @ \/ x \in Hidden(u, p)] = [message[x] EXCEPT !.read = TRUE]
          BY <3>2
        <4>3. message[x] \in MessageRow
          BY DEF ChatInv, ChatShapes
        <4>4. [message[x] EXCEPT !.read = TRUE].read
          BY <4>3 DEF MessageRow
        <4> QED
          BY <4>1, <4>2, <4>4
      <3> QED
        BY <3>3 DEF Unread
    <2>3. CASE y # d
      <3>1. Hides(y, message[x].to, message[x].from)
        BY <1>3, <1>4, <2>3 DEF Hides, Fades
      <3> QED
        BY <1>1, <1>3, <1>4, <2>1, <2>3, <3>1 DEF ChatInv, UnreadIsFound, Fades
    <2> QED
      BY <2>2, <2>3
  <1>9. NoticeOfPending'
    BY <1>1, <1>2, <1>3 DEF ChatInv, ChatShapes, NoticeOfPending
  <1> QED
    BY <1>7, <1>8, <1>9 DEF ChatInv

\* A decision that overtook the requester hides again what he had restored: late.
LEMMA DecidingIsTrue ==
    ASSUME ChatInv, NEW x, DecideWrite(x)
    PROVE  ChatInv'
  <1> DEFINE d == x.on
             told == IF x.confirm THEN "confirmed" ELSE "rejected"
             by == deletion[d].by
             peer == deletion[d].peer
  <1>1. /\ d \in Deletions /\ deciding' \subseteq [on: Deletions, confirm: BOOLEAN]
        /\ clock' = clock
    BY DEF DecideWrite, ChatInv, ChatShapes
  <1>2. CASE deletion[d].state = "gone"
    <2>1. Fades /\ Eases /\ late' = late /\ requestNotice' = requestNotice /\ deletion' = deletion
      BY <1>2, StayingFades DEF DecideWrite, ChatInv
    <2>2. ChatShapes' /\ UnreadIsFound'
      BY <1>1, <2>1, Easing DEF ChatInv, ChatShapes
    <2> QED
      BY <2>1, <2>2 DEF ChatInv, NoticeOfPending
  <1>3. CASE deletion[d].state # "gone"
    <2>1. /\ deletion' = [deletion EXCEPT ![d].state = told]
          /\ message' = IF x.confirm THEN Erased(Agreed(d)) ELSE message
          /\ requestNotice' = Seen(requestNotice, {d})
          /\ late' = IF deletion[d].state = "pending" THEN late
                     ELSE late \cup {m \in Agreed(d) : m \in UnreadFrom(by, peer)}
      BY <1>3 DEF DecideWrite
    <2>2. told \in {"confirmed", "rejected"}
      OBVIOUS
    <2> HIDE DEF told
    <2>3. ASSUME NEW y \in Deletions
          PROVE  /\ deletion'[y] \in DeletionRow
                 /\ deletion'[y].by = deletion[y].by /\ deletion'[y].peer = deletion[y].peer
                 /\ deletion'[y].cutoff = deletion[y].cutoff
                 /\ deletion'[y].state = IF y = d THEN told ELSE deletion[y].state
      BY <2>1, <2>2 DEF ChatInv, ChatShapes, DeletionRow
    <2>4. deletion' \in [Deletions -> DeletionRow]
      BY <2>1, <2>2 DEF ChatInv, ChatShapes, DeletionRow
    <2>5. Fades
      <3>1. \A m \in Messages : m \in Agreed(d) => message[m].state = "stored"
        BY DEF Agreed, StoredBetween
      <3> QED
        BY <2>1, <3>1, ErasingFades, StayingFades DEF ChatInv
    <2>6. requestNotice' \in [Deletions -> Notice] /\ NoticeOfPending'
      BY <1>1, <2>1, <2>3, NoticeFacts DEF ChatInv, ChatShapes, NoticeOfPending
    <2>7. ChatShapes'
      BY <1>1, <2>3, <2>4, <2>5, <2>6 DEF ChatInv, ChatShapes, Fades
    <2>8. UnreadIsFound'
      <3> SUFFICES ASSUME NEW m \in Messages, NEW y \in Deletions, Unread(m)', m \notin late',
                          Hides(y, message[m].to, message[m].from)'
                   PROVE  message'[m].at > deletion'[y].cutoff
        BY DEF UnreadIsFound
      <3>1. Unread(m) /\ m \notin late
        BY <2>1, <2>5 DEF Fades
      <3>2. CASE Hides(y, message[m].to, message[m].from)
        BY <2>3, <2>5, <3>1, <3>2 DEF ChatInv, UnreadIsFound, Fades
      <3>3. CASE ~Hides(y, message[m].to, message[m].from)
        <4>1. y = d /\ deletion[d].state # "pending" /\ by = message[m].to /\ peer = message[m].from
          BY <2>3, <2>5, <3>3 DEF Hides, Fades
        <4>2. m \in UnreadFrom(by, peer)
          BY <3>1, <4>1 DEF UnreadFrom, StoredBetween, InConversation, Unread
        <4>3. m \notin Agreed(d)
          BY <2>1, <4>1, <4>2
        <4>4. ~(message[m].at <= deletion[d].cutoff)
          BY <4>2, <4>3 DEF Agreed, UnreadFrom
        <4>5. message[m].at \in Nat /\ deletion[d].cutoff \in Nat
          BY <1>1 DEF ChatInv, ChatShapes, MessageRow, DeletionRow
        <4>6. message[m].at > deletion[d].cutoff
          BY <4>4, <4>5
        <4> QED
          BY <2>3, <2>5, <4>1, <4>6 DEF Fades
      <3> QED
        BY <3>2, <3>3
    <2> QED
      BY <2>6, <2>7, <2>8 DEF ChatInv
  <1> QED
    BY <1>2, <1>3
LEMMA ChatInductive == ChatInv /\ [Next]_vars => ChatInv'
  <1> SUFFICES ASSUME ChatInv, [Next]_vars PROVE ChatInv'
    OBVIOUS
  <1>1. CASE AccountStep
    BY <1>1, ChatStays DEF AccountStep
  <1>2. CASE \E r \in Requests : DeleteUser(r)
    BY <1>2, CleaningIsTrue DEF DeleteUser
  <1>3. ASSUME NEW r \in Requests, NEW u \in Users, ChatPage(r, u) PROVE ChatInv'
    BY <1>3, OpeningIsTrue, SendingIsTrue, ClosingIsTrue, RequestingIsTrue, RestoringIsTrue,
       ReadingTheRequestIsTrue DEF ChatPage
  <1>4. ASSUME NEW r \in Requests, NEW u \in Users, NoticePage(r, u) PROVE ChatInv'
    BY <1>4, ChatStays DEF NoticePage, NoticeRead, NoticeDelete, NoticesReadAll,
       NoticesDeleteRead, NoticesDeleteAll, Preferences
  <1>5. ASSUME NEW r \in Requests, PushPage(r) PROVE ChatInv'
    BY <1>5, ChatStays DEF PushPage, Subscribe, Unsubscribe, PushTest, ToggleExternal
  <1>6. CASE Background
    <2>1. ASSUME NEW m \in Messages, CommitMessage(m) PROVE ChatInv'
      BY <2>1, CommittingIsTrue
    <2>2. ASSUME NEW x \in deciding, DecideWrite(x) PROVE ChatInv'
      BY <2>2, DecidingIsTrue
    <2>3. ASSUME NEW e \in Events, CreateNotices(e) \/ NextPush(e) \/ Mail(e) PROVE ChatInv'
      BY <2>3, ChatStays DEF CreateNotices, NextPush, Mail
    <2>4. ASSUME NEW p, LoadPush(p) \/ DeliverPush(p) PROVE ChatInv'
      BY <2>4, ChatStays DEF LoadPush, DeliverPush
    <2> QED
      BY <1>6, <2>1, <2>2, <2>3, <2>4 DEF Background
  <1>7. CASE UNCHANGED vars
    BY <1>7, ChatStays DEF vars
  <1> QED
    BY <1>1, <1>2, <1>3, <1>4, <1>5, <1>6, <1>7 DEF Next

\* The badge of the chat counts nothing that its user cannot find, the messages in late
\* excepted: a new cutoff marks what it hides, and a message that is committed behind a
\* cutoff, or hidden again by a decision that came too late, is in late.
THEOREM BadgeCountsWhatIsThere == Spec => []BadgeIsTrue
  BY ChatFirst, ChatInductive, BadgeFollows, PTL DEF Spec

-----------------------------------------------------------------------------
(* What a step may not do. *)

Erases(m) == message[m].state = "stored" /\ message'[m].state = "gone"

\* Pages that erase nothing.
LEMMA OnlyErasureErases ==
    ASSUME ChatShapes, NEW m \in Messages, Erases(m),
           \/ message' = message \/ \E S : message' = ReadBy(S)
           \/ \E x \in Messages, w \in [state : {"flushed"}, from : Somebody, to : Somebody,
                                         at : {clock'}, read : BOOLEAN] :
                message' = [message EXCEPT ![x] = w]
           \/ \E x \in Messages : message' = [message EXCEPT ![x].state = "stored"]
    PROVE  FALSE
  <1>1. CASE message' = message
    BY <1>1 DEF Erases
  <1>2. CASE \E S : message' = ReadBy(S)
    <2> PICK S : message' = ReadBy(S)
      BY <1>2
    <2>1. message'[m] = [message[m] EXCEPT !.read = @ \/ m \in S] /\ message[m] \in MessageRow
      BY DEF ReadBy, ChatShapes
    <2>2. message'[m].state = message[m].state
      BY <2>1 DEF MessageRow
    <2> QED
      BY <2>2 DEF Erases
  <1>3. CASE \E x \in Messages, w \in [state : {"flushed"}, from : Somebody, to : Somebody,
                                         at : {clock'}, read : BOOLEAN] :
                message' = [message EXCEPT ![x] = w]
    BY <1>3 DEF Erases, ChatShapes
  <1>4. CASE \E x \in Messages : message' = [message EXCEPT ![x].state = "stored"]
    BY <1>4 DEF Erases, ChatShapes, MessageRow
  <1> QED
    BY <1>1, <1>2, <1>3, <1>4

MayErase(m) ==
    \/ \E u \in {message[m].from, message[m].to} : user'[u].deleted
    \/ \E x \in deciding \ deciding' :
         /\ x.confirm
         /\ {deletion[x.on].by, deletion[x.on].peer} = {message[m].from, message[m].to}
         /\ message[m].at <= deletion[x.on].cutoff

LEMMA ErasedOnlyByRight ==
    ASSUME AInv, ChatInv, [Next]_vars, NEW m \in Messages, Erases(m)
    PROVE  MayErase(m)
  <1>1. CASE AccountStep
    BY <1>1, OnlyErasureErases DEF AccountStep, chatVars, ChatInv
  <1>2. CASE \E r \in Requests : DeleteUser(r)
    <2> PICK r \in Requests : DeleteUser(r)
      BY <1>2
    <2> DEFINE u == request[r].on
    <2>1. u \in Users /\ user'[u].deleted
      BY DEF DeleteUser, UserDeleteWrite, AInv, AccountShapes, PagesHaveRead, User
    <2>2. \E p : m \in StoredBetween(u, p)
      <3> DEFINE M == UNION {StoredBetween(u, p) : p \in {v \in Users \ {u} : user[v].deleted}}
      <3>1. message' = Erased(M)
        BY DEF DeleteUser, Cleanup
      <3>2. m \in M
        <4> HIDE DEF M
        <4> QED
          BY <3>1 DEF Erases, Erased
      <3> QED
        BY <3>2
    <2>3. u \in {message[m].from, message[m].to}
      BY <2>2 DEF StoredBetween, InConversation
    <2> QED
      BY <2>1, <2>3 DEF MayErase
  <1>3. ASSUME NEW r \in Requests, NEW u \in Users, ChatPage(r, u) PROVE MayErase(m)
    <2>1. ASSUME NEW p \in Users, DeleteConversation(r, u, p) PROVE MayErase(m)
      <3>1. user'[p].deleted
        BY <2>1 DEF DeleteConversation, AccountsStay
      <3>2. m \in StoredBetween(u, p)
        BY <2>1 DEF DeleteConversation, Erases, Erased
      <3>3. p \in {message[m].from, message[m].to}
        BY <3>2 DEF StoredBetween, InConversation
      <3> QED
        BY <3>1, <3>3 DEF MayErase
    <2>2. ASSUME NEW p \in Users, NEW x \in Messages, SendMessage(r, u, p, x) PROVE FALSE
      <3>1. [state |-> "flushed", from |-> u, to |-> p, at |-> clock', read |-> FALSE]
              \in [state : {"flushed"}, from : Somebody, to : Somebody, at : {clock'}, read : BOOLEAN]
        BY DEF Somebody
      <3> QED
        BY <2>2, <3>1, OnlyErasureErases DEF SendMessage, ChatInv
    <2>3. ASSUME NEW p \in Users, OpenChat(r, u, p) \/ RestoreHistory(r, u, p) PROVE FALSE
      BY <2>3, OnlyErasureErases DEF OpenChat, RestoreHistory, ChatInv
    <2>4. ASSUME NEW p \in Users, NEW d \in Deletions, RequestDeletion(r, u, p, d) PROVE FALSE
      BY <2>4, OnlyErasureErases DEF RequestDeletion, ChatInv
    <2>5. ASSUME NEW d \in Deletions, NEW confirm \in BOOLEAN, DecideRead(r, u, d, confirm)
          PROVE  FALSE
      BY <2>5, OnlyErasureErases DEF DecideRead, ChatInv
    <2> QED
      BY <1>3, <2>1, <2>2, <2>3, <2>4, <2>5 DEF ChatPage
  <1>4. ASSUME NEW r \in Requests, NEW u \in Users, NoticePage(r, u) PROVE FALSE
    BY <1>4, OnlyErasureErases DEF NoticePage, NoticeRead, NoticeDelete, NoticesReadAll,
       NoticesDeleteRead, NoticesDeleteAll, Preferences, chatVars, ChatInv
  <1>5. ASSUME NEW r \in Requests, PushPage(r) PROVE FALSE
    BY <1>5, OnlyErasureErases DEF PushPage, Subscribe, Unsubscribe, PushTest, ToggleExternal,
       chatVars, ChatInv
  <1>6. CASE Background
    <2>1. ASSUME NEW x \in Messages, CommitMessage(x) PROVE FALSE
      BY <2>1, OnlyErasureErases DEF CommitMessage, ChatInv
    <2>2. ASSUME NEW x \in deciding, DecideWrite(x) PROVE MayErase(m)
      <3>1. message' = IF deletion[x.on].state # "gone" /\ x.confirm THEN Erased(Agreed(x.on)) ELSE message
        BY <2>2 DEF DecideWrite
      <3>2. x.confirm /\ m \in Agreed(x.on)
        BY <3>1 DEF Erases, Erased
      <3>3. x \in deciding \ deciding'
        BY <2>2 DEF DecideWrite
      <3>4. {message[m].from, message[m].to} = {deletion[x.on].by, deletion[x.on].peer}
            /\ message[m].at <= deletion[x.on].cutoff
        BY <3>2 DEF Agreed, StoredBetween, InConversation
      <3> QED
        BY <3>2, <3>3, <3>4 DEF MayErase
    <2>3. ASSUME NEW e \in Events, CreateNotices(e) \/ NextPush(e) \/ Mail(e) PROVE FALSE
      BY <2>3, OnlyErasureErases DEF CreateNotices, NextPush, Mail, chatVars, ChatInv
    <2>4. ASSUME NEW p, LoadPush(p) \/ DeliverPush(p) PROVE FALSE
      BY <2>4, OnlyErasureErases DEF LoadPush, DeliverPush, chatVars, ChatInv
    <2> QED
      BY <1>6, <2>1, <2>2, <2>3, <2>4 DEF Background
  <1>7. CASE UNCHANGED vars
    BY <1>7, OnlyErasureErases DEF vars, chatVars, ChatInv
  <1> QED
    BY <1>1, <1>2, <1>3, <1>4, <1>5, <1>6, <1>7 DEF Next

\* A message disappears only by a decision to delete it, of the side that did not ask, about
\* a request that the message preceded, or when one of its two sides is deleted.
THEOREM ErasedByAgreement == Spec => DeletedByAgreement
  <1> DEFINE Fair == \A m \in Messages : Erases(m) => MayErase(m)
  <1>1. (AInv /\ ChatInv) /\ [Next]_vars => [Fair]_vars
    BY ErasedOnlyByRight
  <1>2. DeletedByAgreement <=> [][Fair]_vars
    BY DEF DeletedByAgreement, Erases, MayErase
  <1> QED
    BY <1>1, <1>2, AccountsFirst, AccountsInductive, ChatFirst, ChatInductive, PTL DEF Spec
-----------------------------------------------------------------------------
(* Devices. *)

DeviceShapes == /\ owner \in [Endpoints -> Somebody]
                /\ notice \in [Notices -> [Users -> Notice]]

LEMMA DevicesFirst == Init => DeviceShapes
  <1> SUFFICES ASSUME NEW start \in Start, MessagingInit(start) PROVE DeviceShapes
    BY DEF Init
  <1>1. start.device \in Somebody
    BY StartAssumption
  <1> QED
    BY <1>1 DEF MessagingInit, DeviceShapes, Notice

LEMMA ListsKeepTheirShape ==
    ASSUME DeviceShapes, NEW u, NEW S
    PROVE  /\ ReadIn(u, S) \in [Notices -> [Users -> Notice]]
           /\ DeletedIn(u, S) \in [Notices -> [Users -> Notice]]
  <1>1. \A n \in Notices : notice[n] \in [Users -> Notice]
    BY DEF DeviceShapes
  <1>2. \A n \in Notices : Seen(notice[n], {u}) \in [Users -> Notice]
    BY <1>1 DEF Seen, Notice
  <1>3. \A n \in Notices : Without(notice[n], {u}) \in [Users -> Notice]
    BY <1>1 DEF Without, Notice
  <1> HIDE DEF Notice, Seen, Without
  <1> QED
    BY <1>1, <1>2, <1>3 DEF ReadIn, DeletedIn

LEMMA DevicesInductive == AInv /\ DeviceShapes /\ [Next]_vars => DeviceShapes'
  <1> SUFFICES ASSUME AInv, DeviceShapes, [Next]_vars PROVE DeviceShapes'
    OBVIOUS
  <1>0. UNCHANGED <<owner, notice>> => DeviceShapes'
    BY DEF DeviceShapes
  <1>1. CASE AccountStep
    BY <1>0, <1>1 DEF AccountStep, pushVars
  <1>2. CASE \E r \in Requests : DeleteUser(r)
    <2>1. PICK u : Cleanup(u)
      BY <1>2 DEF DeleteUser
    <2>2. notice' \in [Notices -> [Users -> Notice]]
      BY <2>1, ListsKeepTheirShape DEF Cleanup
    <2>3. owner' \in [Endpoints -> Somebody]
      BY <2>1 DEF Cleanup, DeviceShapes, Somebody
    <2> QED
      BY <2>2, <2>3 DEF DeviceShapes
  <1>3. ASSUME NEW r \in Requests, NEW u \in Users, ChatPage(r, u) PROVE DeviceShapes'
    BY <1>0, <1>3 DEF ChatPage, OpenChat, SendMessage, DeleteConversation, RequestDeletion,
       RestoreHistory, DecideRead, pushVars
  <1>4. ASSUME NEW r \in Requests, NEW u \in Users, NoticePage(r, u) PROVE DeviceShapes'
    <2>1. owner' = owner
      BY <1>4 DEF NoticePage, NoticeRead, NoticeDelete, NoticesReadAll, NoticesDeleteRead,
         NoticesDeleteAll, Preferences
    <2>2. notice' = notice \/ \E S : notice' = ReadIn(u, S) \/ notice' = DeletedIn(u, S)
      BY <1>4 DEF NoticePage, NoticeRead, NoticeDelete, NoticesReadAll, NoticesDeleteRead,
         NoticesDeleteAll, Preferences
    <2> QED
      BY <2>1, <2>2, ListsKeepTheirShape DEF DeviceShapes
  <1>5. ASSUME NEW r \in Requests, PushPage(r) PROVE DeviceShapes'
    BY <1>5 DEF PushPage, Subscribe, Unsubscribe, PushTest, ToggleExternal, DeviceShapes, Somebody
  <1>6. CASE Background
    <2>1. ASSUME NEW m \in Messages, CommitMessage(m) PROVE DeviceShapes'
      BY <1>0, <2>1 DEF CommitMessage
    <2>2. ASSUME NEW x \in deciding, DecideWrite(x) PROVE DeviceShapes'
      BY <1>0, <2>2 DEF DecideWrite, pushVars
    <2>3. ASSUME NEW e \in Events, NextPush(e) \/ Mail(e) PROVE DeviceShapes'
      BY <1>0, <2>3 DEF NextPush, Mail
    <2>4. ASSUME NEW e \in Events, CreateNotices(e) PROVE DeviceShapes'
      <3> DEFINE users == {u \in Users : Active(u)}
                 list == [u \in Users |-> IF u \in users THEN "unread" ELSE notice[e][u]]
      <3>1. owner' = owner /\ notice' = [notice EXCEPT ![e] = list]
        BY <2>4 DEF CreateNotices
      <3>2. list \in [Users -> Notice]
        BY DEF DeviceShapes, Notice, Notices
      <3> HIDE DEF list
      <3> QED
        BY <3>1, <3>2 DEF DeviceShapes
    <2>5. ASSUME NEW p, LoadPush(p) PROVE DeviceShapes'
      BY <1>0, <2>5 DEF LoadPush
    <2>6. ASSUME NEW p, DeliverPush(p) PROVE DeviceShapes'
      <3>1. PICK refused :
              /\ owner' = [x \in Endpoints |-> IF x \in Stale(p.to, refused) THEN NoUser ELSE owner[x]]
              /\ notice' = IF Stale(p.to, refused) = {} THEN notice
                           ELSE [notice EXCEPT ![Device][p.to] = "unread"]
        BY <2>6 DEF DeliverPush
      <3>2. owner' \in [Endpoints -> Somebody]
        BY <3>1 DEF DeviceShapes, Somebody
      <3>3. [notice EXCEPT ![Device][p.to] = "unread"] \in [Notices -> [Users -> Notice]]
        BY DEF DeviceShapes, Notices, Notice
      <3> QED
        BY <3>1, <3>2, <3>3 DEF DeviceShapes
    <2> QED
      BY <1>6, <2>1, <2>2, <2>3, <2>4, <2>5, <2>6 DEF Background
  <1>7. CASE UNCHANGED vars
    BY <1>0, <1>7 DEF vars, pushVars
  <1> QED
    BY <1>1, <1>2, <1>3, <1>4, <1>5, <1>6, <1>7 DEF Next

\* A page that answers frees its request, so that it is no delivery.
LEMMA AnswersAreSeen ==
    ASSUME AccountShapes, NEW r \in Requests, Handles(r) \/ request[r].pc # "idle", Answer(r)
    PROVE  request' # request
  BY DEF AccountShapes, Handles, Answer, Idle

Loses(x) == owner[x] # NoUser /\ owner'[x] = NoUser /\ request' = request
Told(x) == notice'[Device][owner[x]] = "unread"

LEMMA LostIsTold ==
    ASSUME AInv, DeviceShapes, [Next]_vars, NEW x \in Endpoints, Loses(x)
    PROVE  Told(x)
  <1>0. owner' # owner
    BY DEF Loses
  <1>1. CASE AccountStep
    BY <1>0, <1>1 DEF AccountStep, pushVars
  <1>2. ASSUME NEW r \in Requests, DeleteUser(r) PROVE FALSE
    BY <1>2, AnswersAreSeen DEF DeleteUser, UserDeleteWrite, AInv, Loses
  <1>3. ASSUME NEW r \in Requests, NEW u \in Users, ChatPage(r, u) PROVE FALSE
    BY <1>0, <1>3 DEF ChatPage, OpenChat, SendMessage, DeleteConversation, RequestDeletion,
       RestoreHistory, DecideRead, pushVars
  <1>4. ASSUME NEW r \in Requests, NEW u \in Users, NoticePage(r, u) PROVE FALSE
    BY <1>0, <1>4 DEF NoticePage, NoticeRead, NoticeDelete, NoticesReadAll, NoticesDeleteRead,
       NoticesDeleteAll, Preferences
  <1>5. ASSUME NEW r \in Requests, PushPage(r) PROVE FALSE
    <2>1. Handles(r) /\ Answer(r)
      BY <1>5 DEF PushPage, Subscribe, Unsubscribe, PushTest, ToggleExternal, Asks, AdminHandles
    <2> QED
      BY <2>1, AnswersAreSeen DEF AInv, Loses
  <1>6. CASE Background
    <2>1. PICK p : DeliverPush(p)
      BY <1>0, <1>6 DEF Background, CommitMessage, DecideWrite, CreateNotices, NextPush, Mail,
         LoadPush, pushVars
    <2>2. PICK refused :
            /\ owner' = [y \in Endpoints |-> IF y \in Stale(p.to, refused) THEN NoUser ELSE owner[y]]
            /\ notice' = IF Stale(p.to, refused) = {} THEN notice
                         ELSE [notice EXCEPT ![Device][p.to] = "unread"]
      BY <2>1 DEF DeliverPush
    <2>3. x \in Stale(p.to, refused)
      BY <2>2 DEF Loses
    <2>4. owner[x] = p.to /\ owner[x] \in Users
      BY <2>3 DEF Stale, DeviceShapes, Somebody, Loses
    <2>5. notice' = [notice EXCEPT ![Device][p.to] = "unread"]
      BY <2>2, <2>3
    <2>6. notice'[Device][p.to] = "unread"
      BY <2>4, <2>5 DEF DeviceShapes, Notices
    <2> QED
      BY <2>4, <2>6 DEF Told
  <1>7. CASE UNCHANGED vars
    BY <1>0, <1>7 DEF vars, pushVars
  <1> QED
    BY <1>1, <1>2, <1>3, <1>4, <1>5, <1>6, <1>7 DEF Next

\* A device that no page and no deletion of its owner unsubscribed was refused by its push
\* service, and its owner of the moment has an unread notice of that: the row is removed only
\* while it still belongs to the user that the push was for.
THEOREM OwnersAreTold == Spec => LostDeviceIsTold
  <1> DEFINE Fair == \A x \in Endpoints : Loses(x) => Told(x)
  <1>1. (AInv /\ DeviceShapes) /\ [Next]_vars => [Fair]_vars
    BY LostIsTold
  <1>2. LostDeviceIsTold <=> [][Fair]_vars
    BY DEF LostDeviceIsTold, Loses, Told
  <1> QED
    BY <1>1, <1>2, AccountsFirst, AccountsInductive, DevicesFirst, DevicesInductive, PTL DEF Spec
=============================================================================
