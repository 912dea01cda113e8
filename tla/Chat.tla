------------------------------- MODULE Chat -------------------------------
(***************************************************************************)
(* One browser tab's chat: chatService.ts and the windows that use it, its *)
(* connection to ws-gateway, and the messages chat-service stores.         *)
(*                                                                         *)
(* A frame sent is posted by the gateway to chat-service and, when the     *)
(* answer comes within five seconds, broadcast to the topic of the         *)
(* conversation and to the recipient's queue.  The window reads the        *)
(* history over HTTP and meanwhile listens to both.  Frames of one         *)
(* connection keep their order; the posts of the gateway do not.           *)
(*                                                                         *)
(* Messages are numbers in the order they are stored.  Queue frames carry  *)
(* no subscription id, so the client library may drop them.  Presence,     *)
(* typing and read receipts are used by no page.  A conversation is no     *)
(* longer than the page of history that is read.                           *)
(***************************************************************************)
EXTENDS Integers, Sequences, FiniteSets

CONSTANTS Partners,
          Posts,        \* requests of the gateway to chat-service at a time
          MaxMessages,  \* bound: messages typed, here or by partners, and stored
          MaxOpened,    \* bound: windows opened or switched to
          MaxDrops,     \* bound: connections lost
          NoPartner        \* no window; a post not under way

Post == [to : Partners, mine : BOOLEAN, at : {"posted", "stored"}, id : Nat]

ASSUME ChatAssumption ==
  /\ MaxMessages \in Nat /\ MaxOpened \in Nat /\ MaxDrops \in Nat
  /\ NoPartner \notin Partners /\ NoPartner \notin Post

VARIABLES stored,      \* message -> its conversation
          posts,       \* post -> the message it carries
          pendingFrames, link, up, down, subs, \* the connection, see below
          activeChat,  \* whom the window talks to, and its subscription
          shows,       \* message -> how often the window shows it
          histories,   \* requests of history under way
          typed, opened, drops,
          excused,     \* history: messages that one of the named gaps swallowed
          crossed      \* history: another chat was opened before a history came

chatVars == <<stored, posts, pendingFrames, link, up, down, subs, activeChat, shows, histories,
              typed, opened, drops, excused, crossed>>

Messages == 1..MaxMessages
NoChat == [with |-> NoPartner, sub |-> 0]

\* The link is "off", "connecting" or "on".  `up` holds the frames the gateway
\* has not read, `down` those the tab has not; `subs` are the subscriptions of
\* the gateway's session.
ChatTypeOK ==
  /\ stored \in Seq(Partners) /\ Len(stored) <= MaxMessages
  /\ \A k \in Posts : posts[k] = NoPartner \/ posts[k].at \in {"posted", "stored"}
  /\ pendingFrames \in Seq(Partners)
  /\ link \in {"off", "connecting", "on"}
  /\ activeChat.with \in Partners \cup {NoPartner} /\ activeChat.sub \in 0..opened
  /\ shows \in [Messages -> 0..1]
  /\ typed \in 0..MaxMessages /\ opened \in 0..MaxOpened /\ drops \in 0..MaxDrops
  /\ excused \subseteq Messages /\ crossed \in BOOLEAN

ChatInit ==
  /\ stored = <<>> /\ posts = [k \in Posts |-> NoPartner]
  /\ pendingFrames = <<>> /\ link = "off" /\ up = <<>> /\ down = <<>> /\ subs = {}
  /\ activeChat = NoChat
  /\ shows = [m \in Messages |-> 0]
  /\ histories = {}
  /\ typed = 0 /\ opened = 0 /\ drops = 0
  /\ excused = {} /\ crossed = FALSE

linkVars == <<pendingFrames, link, up, down, subs>>
windowVars == <<activeChat, shows, histories>>

-----------------------------------------------------------------------------
(* chatService.ts: the connection.                                          *)

Queue == [kind |-> "subscribe", topic |-> NoPartner, sub |-> 0]
Topic(chat) == [kind |-> "subscribe", topic |-> chat.with, sub |-> chat.sub]
Leave(chat) == [kind |-> "unsubscribe", topic |-> chat.with, sub |-> chat.sub]
Send(p) == [kind |-> "send", topic |-> p, sub |-> 0]

Connect ==
  /\ link = "off"
  /\ link' = "connecting"
  /\ UNCHANGED <<stored, posts, pendingFrames, up, down, subs, windowVars, typed, opened, drops,
                 excused, crossed>>

Flushed == [i \in 1..Len(pendingFrames) |-> Send(pendingFrames[i])]

\* The connect call-back: queues, pending frames, then who listens for it.
Connected ==
  /\ link = "connecting"
  /\ link' = "on"
  /\ up' = <<Queue>> \o Flushed
             \o (IF activeChat = NoChat THEN <<>> ELSE <<Topic(activeChat)>>)
  /\ pendingFrames' = <<>>
  /\ UNCHANGED <<stored, posts, down, subs, windowVars, typed, opened, drops, excused, crossed>>

\* The connection ends, and what was under way is gone; a new one is tried
\* five seconds later, or when something is typed.
Drop ==
  /\ link # "off" /\ drops < MaxDrops
  /\ drops' = drops + 1
  /\ link' = "off" /\ up' = <<>> /\ down' = <<>> /\ subs' = {}
  /\ excused' = excused \cup {down[i].id : i \in 1..Len(down)}
  /\ UNCHANGED <<stored, posts, pendingFrames, windowVars, typed, opened, crossed>>

\* sendOrQueue: what the user types, a picture once it is uploaded, and the message
\* about a product that a chat opened from its page begins with.
SendMessage ==
  /\ activeChat # NoChat /\ typed < MaxMessages
  /\ typed' = typed + 1
  /\ \/ /\ link = "on"
        /\ up' = Append(up, Send(activeChat.with))
        /\ UNCHANGED <<pendingFrames, link>>
     \/ /\ link # "on"
        /\ pendingFrames' = Append(pendingFrames, activeChat.with)
        /\ link' = "connecting"
        /\ UNCHANGED up
  /\ UNCHANGED <<stored, posts, down, subs, windowVars, opened, drops, excused, crossed>>

-----------------------------------------------------------------------------
(* ws-gateway and chat-service.                                             *)

Posted(p, mine) == [to |-> p, mine |-> mine, at |-> "posted", id |-> 0]

\* handleSubscribe, handleUnsubscribe, handleSend, which waits for no earlier one.
ReadFrame ==
  /\ up # <<>>
  /\ up' = Tail(up)
  /\ LET f == Head(up)
     IN  \/ f.kind = "subscribe" /\ subs' = subs \cup {f} /\ UNCHANGED posts
         \/ /\ f.kind = "unsubscribe"
            /\ subs' = {s \in subs : s.sub # f.sub}
            /\ UNCHANGED posts
         \/ /\ f.kind = "send"
            /\ \E k \in Posts : posts[k] = NoPartner /\ posts' = [posts EXCEPT ![k] = Posted(f.topic, TRUE)]
            /\ UNCHANGED subs
  /\ UNCHANGED <<stored, pendingFrames, link, down, windowVars, typed, opened, drops, excused, crossed>>

\* A partner's tab sends through the same handler.
PartnerSends(p, k) ==
  /\ typed < MaxMessages /\ posts[k] = NoPartner
  /\ typed' = typed + 1
  /\ posts' = [posts EXCEPT ![k] = Posted(p, FALSE)]
  /\ UNCHANGED <<stored, linkVars, windowVars, opened, drops, excused, crossed>>

\* createMessage.
CreateMessage(k) ==
  /\ posts[k] # NoPartner /\ posts[k].at = "posted"
  /\ Len(stored) < MaxMessages
  /\ stored' = Append(stored, posts[k].to)
  /\ posts' = [posts EXCEPT ![k].at = "stored", ![k].id = Len(stored) + 1]
  /\ UNCHANGED <<linkVars, windowVars, typed, opened, drops, excused, crossed>>

\* Whether the topic's SUBSCRIBE was not read when the message was broadcast.
Deaf(p) == link # "on" \/ \E i \in 1..Len(up) : up[i].kind = "subscribe" /\ up[i].topic = p

\* broadcastToTopic and deliverToUser.
Broadcast(k) ==
  LET m == posts[k]
      topics == {s \in subs : s.topic = m.to}
      queues == {s \in subs : s = Queue /\ ~m.mine}
      frame(s) == [id |-> m.id, sub |-> s.sub]
      order(S) == IF S = {} THEN <<>> ELSE <<frame(CHOOSE s \in S : TRUE)>>
  IN  /\ m # NoPartner /\ m.at = "stored"
      /\ down' = down \o order(topics) \o order(queues)
      /\ posts' = [posts EXCEPT ![k] = NoPartner]
      /\ excused' = IF Deaf(m.to) THEN excused \cup {m.id} ELSE excused
      /\ UNCHANGED <<stored, pendingFrames, link, up, subs, windowVars, typed, opened, drops, crossed>>

\* The gateway gave up after five seconds, or chat-service failed: the message
\* may be stored for all that, and is never broadcast.
PostFails(k) ==
  /\ posts[k] # NoPartner
  /\ posts' = [posts EXCEPT ![k] = NoPartner]
  /\ excused' = IF posts[k].at = "stored" THEN excused \cup {posts[k].id} ELSE excused
  /\ UNCHANGED <<stored, linkVars, windowVars, typed, opened, drops, crossed>>

-----------------------------------------------------------------------------
(* ChatManager.tsx and ChatWindow.tsx.                                      *)

\* The effect of a new partner: leave the old topic, ask for the history,
\* listen to the new topic.  A switch keeps the window and what it shows.
Opens(p) ==
  LET chat == [with |-> p, sub |-> opened + 1]
  IN  /\ p # activeChat.with /\ opened < MaxOpened
      /\ opened' = opened + 1
      /\ activeChat' = chat
      /\ histories' = histories \cup {[of |-> p, sub |-> chat.sub, read |-> FALSE, has |-> {}]}
      /\ crossed' = (crossed \/ histories # {})

OpenChat(p) ==
  /\ Opens(p)
  /\ up' = IF link # "on" THEN up
           ELSE (IF activeChat = NoChat THEN up ELSE Append(up, Leave(activeChat)))
                  \o <<Topic(activeChat')>>
  /\ UNCHANGED <<stored, posts, pendingFrames, link, down, subs, shows, typed, drops, excused>>

\* The window is gone; answers to it change nothing.
CloseChat ==
  /\ activeChat # NoChat
  /\ activeChat' = NoChat
  /\ shows' = [m \in Messages |-> 0]
  /\ histories' = {}
  /\ up' = IF link = "on" THEN Append(up, Leave(activeChat)) ELSE up
  /\ UNCHANGED <<stored, posts, pendingFrames, link, down, subs, typed, opened, drops, excused, crossed>>

\* getConversationHistory.
ReadHistory(h) ==
  /\ h \in histories /\ ~h.read
  /\ histories' = (histories \ {h})
       \cup {[h EXCEPT !.read = TRUE, !.has = {m \in 1..Len(stored) : stored[m] = h.of}]}
  /\ UNCHANGED <<stored, posts, linkVars, activeChat, shows, typed, opened, drops, excused, crossed>>

\* setMessages(history): whatever was shown is replaced.
ShowHistory(h) ==
  /\ h \in histories /\ h.read
  /\ shows' = [m \in Messages |-> IF m \in h.has THEN 1 ELSE 0]
  /\ histories' = histories \ {h}
  /\ UNCHANGED <<stored, posts, linkVars, activeChat, typed, opened, drops, excused, crossed>>

HistoryFails_Keeps(h) ==
  /\ h \in histories
  /\ histories' = histories \ {h}
  /\ excused' = excused \cup 1..Len(stored)
  /\ UNCHANGED <<stored, posts, linkVars, activeChat, shows, typed, opened, drops, crossed>>

\* setMessages([]).
HistoryFails(h) ==
  /\ h \in histories
  /\ shows' = [m \in Messages |-> 0]
  /\ histories' = histories \ {h}
  /\ excused' = excused \cup 1..Len(stored)
  /\ UNCHANGED <<stored, posts, linkVars, activeChat, typed, opened, drops, crossed>>

AppendMessage_Twice(m) == [shows EXCEPT ![m] = @ + 1]

\* Unless the window shows it already.
AppendMessage(m) == IF shows[m] > 0 THEN shows ELSE [shows EXCEPT ![m] = 1]

\* A history that was read without the message will replace it.
Swallows(m) == \E h \in histories : h.read /\ m \notin h.has

\* A frame of the topic: the window's, if it still has that subscription.
TopicFrame(f) ==
  /\ f.sub # 0
  /\ IF f.sub = activeChat.sub
       THEN /\ shows' = AppendMessage(f.id)
            /\ excused' = IF Swallows(f.id) THEN excused \cup {f.id} ELSE excused
       ELSE UNCHANGED <<shows, excused>>
  /\ UNCHANGED <<activeChat, histories, opened, crossed, up>>

\* A frame of the queue reaches the listeners, if any: the window shows what is
\* of its conversation; where no window is open, one opens.
QueueFrame(f) ==
  LET p == stored[f.id]
  IN  /\ f.sub = 0
      /\ \/ UNCHANGED <<activeChat, shows, histories, opened, excused, crossed, up>>
         \/ /\ activeChat.with = p
            /\ shows' = AppendMessage(f.id)
            /\ excused' = IF Swallows(f.id) THEN excused \cup {f.id} ELSE excused
            /\ UNCHANGED <<activeChat, histories, opened, crossed, up>>
         \/ /\ activeChat = NoChat
            /\ Opens(p)
            /\ up' = Append(up, Topic(activeChat'))
            /\ UNCHANGED <<shows, excused>>

Deliver ==
  /\ down # <<>>
  /\ down' = Tail(down)
  /\ TopicFrame(Head(down)) \/ QueueFrame(Head(down))
  /\ UNCHANGED <<stored, posts, pendingFrames, link, subs, typed, drops>>

-----------------------------------------------------------------------------
ChatNext ==
  \/ Connect \/ Connected \/ Drop \/ SendMessage \/ ReadFrame \/ CloseChat \/ Deliver
  \/ \E p \in Partners : OpenChat(p) \/ \E k \in Posts : PartnerSends(p, k)
  \/ \E k \in Posts : CreateMessage(k) \/ Broadcast(k) \/ PostFails(k)
  \/ \E h \in histories : ReadHistory(h) \/ ShowHistory(h) \/ HistoryFails(h)

-----------------------------------------------------------------------------
\* A message of the window's conversation may be missing if it fell into a gap:
\* broadcast while the tab was not connected or its subscription under way,
\* delivered between the reading of a history and its arrival, never broadcast
\* by a gateway that had given up, or lost with a history that failed.
MayMiss(m) ==
  m \in excused \/ \E k \in Posts : posts[k] # NoPartner /\ posts[k].id = m

\* Once its history is there, a window shows messages of its own conversation
\* and none of them twice, though they come by history, topic and queue; and once
\* nothing is under way on its connection, every message stored for it, save the
\* gaps of MayMiss.  Unless another chat was opened before the history of one had
\* come (ChatWindow.tsx and chatService.ts).
WindowShowsItsConversation ==
  crossed \/ histories # {}
  \/ /\ \A m \in Messages :
          shows[m] > 0 => shows[m] = 1 /\ stored[m] = activeChat.with
     /\ (up = <<>> /\ down = <<>> /\ activeChat # NoChat) =>
          \A m \in 1..Len(stored) :
            stored[m] = activeChat.with => shows[m] > 0 \/ MayMiss(m)
=============================================================================
