--------------------------------- MODULE Portal ---------------------------------
(***************************************************************************)
(* The portal as its users meet it: the accounts of Accounts and the chat,  *)
(* notices and pushes of Messaging, which share the requests in progress    *)
(* and the transaction of user_delete.                                      *)
(***************************************************************************)
EXTENDS Messaging

CONSTANT Start   \* situations to begin in: what has been used up, whose device, which event

ASSUME StartAssumption ==
    Start \subseteq [ops: 0 .. MaxOps, turns: 0 .. MaxTurns, device: Somebody,
                     event: {"due", "mailed"},
                     asked: BOOLEAN]

vars == <<accountVars, chatVars, pushVars>>
-----------------------------------------------------------------------------
Init == \E start \in Start : AccountInit(start) /\ MessagingInit(start)

\* Pages of one request that touch the accounts only.
AccountStep == AccountNext /\ UNCHANGED <<chatVars, pushVars>>

\* The end of user_delete with the cleanup in the same transaction.
DeleteUser(r) == UserDeleteWrite(r) /\ Cleanup(request[r].on)

ChatPage(r, u) ==
    \/ \E p \in Users : \/ OpenChat(r, u, p)
                        \/ \E m \in Messages : SendMessage(r, u, p, m)
                        \/ DeleteConversation(r, u, p)
                        \/ \E d \in Deletions : RequestDeletion(r, u, p, d)
                        \/ RestoreHistory(r, u, p)
    \/ \E d \in Deletions, confirm \in BOOLEAN : DecideRead(r, u, d, confirm)

NoticePage(r, u) ==
    \/ \E n \in Notices : NoticeRead(r, u, n) \/ NoticeDelete(r, u, n)
    \/ NoticesReadAll(r, u) \/ NoticesDeleteRead(r, u) \/ NoticesDeleteAll(r, u)
    \/ \E categories \in SUBSET Categories : Preferences(r, u, categories)

PushPage(r) ==
    \/ \E x \in Endpoints : \/ \E u \in Users : Subscribe(r, u, x)
                            \/ Unsubscribe(r, x)
                            \/ PushTest(r, x)
    \/ ToggleExternal(r)

\* The end of a request, and the scheduler and the background tasks.
Background ==
    \/ \E m \in Messages : CommitMessage(m)
    \/ \E x \in deciding : DecideWrite(x)
    \/ \E e \in Events : CreateNotices(e) \/ NextPush(e) \/ Mail(e)
    \/ \E push \in outbox : LoadPush(push)
    \/ \E p \in delivery : DeliverPush(p)

Next == \/ AccountStep
        \/ \E r \in Requests : \/ DeleteUser(r)
                               \/ \E u \in Users : ChatPage(r, u) \/ NoticePage(r, u)
                               \/ PushPage(r)
        \/ Background

Spec == Init /\ [][Next]_vars

-----------------------------------------------------------------------------
(* Properties. *)

TypeOK ==
    /\ AccountTypeOK
    /\ message \in [Messages -> Message]
    /\ deletion \in [Deletions -> Deletion]
    /\ clock \in Times
    /\ requestNotice \in [Deletions -> Notice]
    /\ notice \in [Notices -> [Users -> Notice]]
    /\ deciding \subseteq [on: Deletions, confirm: BOOLEAN]
    /\ owner \in [Endpoints -> Somebody]
    /\ wants \in [Users -> SUBSET Categories]
    /\ external \in BOOLEAN
    /\ event \in [Events -> [pc: {"due", "pushing", "waiting", "mailed"}, left: SUBSET Users]]
    /\ late \subseteq Messages

\* The chat badge of unread_counts counts nothing that its user cannot find: an unread
\* message is not in the history he hid himself, and an unread notice of a deletion request
\* has a request to be answered.  The messages in late are counted although they are hidden.
BadgeIsTrue ==
    /\ \A m \in Messages :
         message[m].state = "stored" /\ ~message[m].read /\ m \notin late
           => message[m].at > Cutoff(message[m].to, message[m].from)
    /\ \A d \in Deletions :
         requestNotice[d] = "unread" => deletion[d].state = "pending"

\* A message disappears only when the side that did not ask for it has agreed to a request
\* that the message preceded, or when one of the two is deleted.
DeletedByAgreement ==
    [][\A m \in Messages :
         message[m].state = "stored" /\ message'[m].state = "gone"
           => \/ \E u \in {message[m].from, message[m].to} : user'[u].deleted
              \/ \E x \in deciding \ deciding' :
                   /\ x.confirm
                   /\ {deletion[x.on].by, deletion[x.on].peer} = {message[m].from, message[m].to}
                   /\ message[m].at <= deletion[x.on].cutoff]_vars

\* A device that no page and no deletion of its owner unsubscribed is lost to a push service
\* that refused it, and its owner has an unread notice of that, whoever the refused push was
\* for when the device changed hands on its way.
LostDeviceIsTold ==
    [][\A x \in Endpoints :
         owner[x] # NoUser /\ owner'[x] = NoUser /\ request' = request
           => notice'[Device][owner[x]] = "unread"]_vars
=============================================================================
