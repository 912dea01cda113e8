----------------------------- MODULE Assistant ------------------------------
(***************************************************************************)
(* The assistant's page, AiAssistant.tsx: the user says things, with a     *)
(* photo at times, and the page either asks chat-service or makes a lost-  *)
(* and-found post, over several messages if the kind or the place is       *)
(* missing; and askAiAssistant, which lets the model call tools for three  *)
(* rounds.                                                                 *)
(*                                                                         *)
(* A message is what the page finds in it: the kind of post, and whether   *)
(* it names a place.  Messages are counted, photos are numbered as they    *)
(* are picked.  A suggestion is sent one frame after the click, with what  *)
(* the page was at the click.  A page that was left is a new one at once:  *)
(* where the user is meanwhile makes no difference to it.  Wording, sizes  *)
(* and types of files are left out.                                        *)
(***************************************************************************)
EXTENDS Integers, FiniteSets

CONSTANTS Kinds,      \* "LOST" and "FOUND"
          NoKind,
          Sends,      \* runs of sendMessage at a time
          MaxSays,    \* bound: messages sent
          MaxPhotos,  \* bound: photos picked
          MaxLeft,    \* bound: times the page is left
          MAX_TOOL_ROUNDS

ASSUME AssistantAssumption == MaxSays \in Nat /\ MaxPhotos \in Nat /\ MaxLeft \in Nat

VARIABLES attachedImage, selectedType, draft, isSending, \* the page
          leaving,    \* timers that will each open a post that was made
          clicked,    \* suggestions clicked in this frame, with the page as it was
          sends,      \* send -> a run of sendMessage that awaits something
          photoPosts,      \* photo -> posts that show it
          says, answers, \* messages of the user, and of the assistant
          picked, left,
          removed,    \* history: photos the user took away, or left the page with
          ignored,    \* history: photos dropped with the reply to a draft they were attached to
          doubted     \* history: an answer about a post was lost, or sends overlapped, or
                      \* the page changed between a suggestion's click and its frame

pageState == <<attachedImage, selectedType, draft, isSending>>
assistantHistory == <<removed, ignored, doubted>>
assistantVars == <<pageState, leaving, clicked, sends, photoPosts, says, answers, picked, left,
                   assistantHistory>>

NoDraft == [is |-> FALSE, kind |-> NoKind, place |-> FALSE, photo |-> 0]
NoSend == [at |-> "free", kind |-> NoKind, photo |-> 0, round |-> 0]
Photos == 1..MaxPhotos
Said == [kind : Kinds \cup {NoKind}, place : BOOLEAN]
\* Each suggestion is about no item, or about one and its place.
Suggestions == {[kind |-> NoKind, place |-> FALSE]} \cup [kind : Kinds, place : {TRUE}]

\* What a run of sendMessage reads of the page.
Rendered == [draft |-> draft, photo |-> attachedImage, selected |-> selectedType]

AssistantTypeOK ==
  /\ attachedImage \in 0..picked /\ selectedType \in Kinds \cup {NoKind}
  /\ draft.is \in BOOLEAN /\ draft.photo \in 0..picked /\ isSending \in BOOLEAN
  /\ leaving \in Nat /\ Cardinality(clicked) <= 1
  /\ \A s \in Sends : sends[s].at \in {"free", "upload", "create", "created", "model", "answered"}
  /\ photoPosts \in [Photos -> 0..MaxSays]
  /\ says \in 0..MaxSays /\ answers \in 0..MaxSays /\ picked \in 0..MaxPhotos /\ left \in 0..MaxLeft
  /\ removed \subseteq Photos /\ ignored \subseteq Photos /\ doubted \in BOOLEAN

AssistantInit ==
  /\ attachedImage = 0 /\ selectedType = NoKind /\ draft = NoDraft /\ isSending = FALSE
  /\ leaving = 0 /\ clicked = {} /\ sends = [s \in Sends |-> NoSend] /\ photoPosts = [p \in Photos |-> 0]
  /\ says = 0 /\ answers = 0 /\ picked = 0 /\ left = 0
  /\ removed = {} /\ ignored = {} /\ doubted = FALSE

-----------------------------------------------------------------------------
\* The user.  Buttons are disabled while a message is under way.

HandleImageChange ==
  /\ ~isSending /\ picked < MaxPhotos
  /\ picked' = picked + 1 /\ attachedImage' = picked + 1
  /\ removed' = removed \cup ({attachedImage} \ {0})
  /\ UNCHANGED <<selectedType, draft, isSending, leaving, clicked, sends, photoPosts, says, answers, left,
                 ignored, doubted>>

RemoveImage ==
  /\ attachedImage # 0
  /\ attachedImage' = 0 /\ removed' = removed \cup {attachedImage}
  /\ UNCHANGED <<selectedType, draft, isSending, leaving, clicked, sends, photoPosts, says, answers, picked,
                 left, ignored, doubted>>

SelectType(k) ==
  /\ selectedType' = IF selectedType = k THEN NoKind ELSE k
  /\ UNCHANGED <<attachedImage, draft, isSending, leaving, clicked, sends, photoPosts, says, answers, picked,
                 left, assistantHistory>>

\* The component is gone with its state, and nobody sees the answer to its runs.
\* They go on all the same, and make their posts; and the timers stay, theirs too.
LeaveAssistant(timers) ==
  /\ left < MaxLeft /\ left' = left + 1
  /\ attachedImage' = 0 /\ selectedType' = NoKind /\ draft' = NoDraft /\ isSending' = FALSE
  /\ clicked' = {} /\ sends' = [s \in Sends |-> NoSend]
  /\ answers' = says
  /\ removed' = 1..picked
  /\ \E made \in SUBSET {s \in Sends : sends[s].at \in {"upload", "create"}} :
       /\ photoPosts' = [p \in Photos |-> photoPosts[p] + Cardinality({s \in made : sends[s].photo = p})]
       /\ \E opens \in SUBSET (made \cup {s \in Sends : sends[s].at = "created"}) :
            leaving' = timers + Cardinality(opens)
  /\ UNCHANGED <<says, picked, ignored, doubted>>

LeavePageOfAssistant == LeaveAssistant(leaving)

-----------------------------------------------------------------------------
\* sendMessage.

\* The end of the try block: clearAttachment drops what is attached.  With a reply
\* to a draft it was not used: handleDraftReply takes the draft's photo, or none.
AnswerShown ==
  /\ attachedImage' = 0 /\ selectedType' = NoKind
  /\ isSending' = FALSE /\ answers' = answers + 1
  /\ ignored' = IF draft.is THEN ignored \cup ({attachedImage} \ {0}) ELSE ignored

\* The end of a run that awaits nothing: a question, and the draft it is about.
Question(newDraft, s) ==
  /\ draft' = newDraft
  /\ AnswerShown
  /\ UNCHANGED <<sends, leaving>>

\* The run goes on after an await.
Await(s, at, kind, photo) ==
  /\ sends' = [sends EXCEPT ![s] = [at |-> at, kind |-> kind, photo |-> photo, round |-> 0]]
  /\ isSending' = TRUE
  /\ UNCHANGED <<attachedImage, selectedType, draft, answers, leaving, ignored>>

\* createLostFoundFromChat: the place is asked for before anything is sent.
CreateLostFoundFromChat(s, kind, place, photo) ==
  IF ~place THEN Question([is |-> TRUE, kind |-> kind, place |-> FALSE, photo |-> photo], s)
  ELSE Await(s, IF photo = 0 THEN "create" ELSE "upload", kind, photo)

FirstKnown(options) ==
  IF \E i \in DOMAIN options : options[i] # NoKind
  THEN options[CHOOSE i \in DOMAIN options :
                 options[i] # NoKind /\ \A j \in 1..(i - 1) : options[j] = NoKind]
  ELSE NoKind

\* handleDraftReply: a reply without a kind is not kept.
HandleDraftReply(s, page, told) ==
  LET kind == FirstKnown(<<page.draft.kind, page.selected, told.kind>>) IN
  IF kind = NoKind THEN Question(page.draft, s)
  ELSE CreateLostFoundFromChat(s, kind, page.draft.place \/ told.place, page.draft.photo)

HandleNewMessage(s, page, told) ==
  LET kind == FirstKnown(<<page.selected, told.kind>>) IN
  IF kind # NoKind THEN CreateLostFoundFromChat(s, kind, told.place, page.photo)
  ELSE IF page.photo # 0
  THEN Question([is |-> TRUE, kind |-> NoKind, place |-> told.place, photo |-> page.photo], s)
  ELSE Await(s, "model", NoKind, 0)

SendToAssistant(page, told) ==
  /\ says < MaxSays /\ says' = says + 1
  /\ doubted' = (doubted \/ page # Rendered \/ \E s \in Sends : sends[s] # NoSend)
  /\ \E s \in Sends :
       /\ sends[s] = NoSend
       /\ IF page.draft.is THEN HandleDraftReply(s, page, told) ELSE HandleNewMessage(s, page, told)
  /\ UNCHANGED <<photoPosts, picked, left, removed>>

\* The Enter key and the button.
Enter(told) ==
  /\ ~isSending
  /\ SendToAssistant(Rendered, told)
  /\ UNCHANGED clicked

ClickSuggestion(told) ==
  /\ ~isSending /\ clicked = {}
  /\ clicked' = {[page |-> Rendered, told |-> told]}
  /\ UNCHANGED <<pageState, leaving, sends, photoPosts, says, answers, picked, left, assistantHistory>>

\* The next frame: isSending is what it was at the click.
SendSuggestion(c) ==
  /\ c \in clicked
  /\ SendToAssistant(c.page, c.told)
  /\ clicked' = clicked \ {c}

-----------------------------------------------------------------------------
\* What a run awaits.

Goes(s, from, to) ==
  /\ sends[s].at = from
  /\ sends' = [sends EXCEPT ![s].at = to]

UploadImage(s) ==
  /\ Goes(s, "upload", "create")
  /\ UNCHANGED <<pageState, leaving, clicked, photoPosts, says, answers, picked, left, assistantHistory>>

\* createAiAutoPost of lost-found-service.
CreateAiAutoPost(s) ==
  /\ Goes(s, "create", "created")
  /\ photoPosts' = [p \in Photos |-> IF p = sends[s].photo THEN photoPosts[p] + 1 ELSE photoPosts[p]]
  /\ UNCHANGED <<pageState, leaving, clicked, says, answers, picked, left, assistantHistory>>

Created_KeepsDraft(s) ==
  /\ sends[s].at = "created"
  /\ sends' = [sends EXCEPT ![s] = NoSend]
  /\ AnswerShown
  /\ leaving' \in {leaving, leaving + 1}
  /\ UNCHANGED <<draft, clicked, photoPosts, says, picked, left, removed, doubted>>

\* The page will open the post, unless the answer had no id.
Created(s) ==
  /\ sends[s].at = "created"
  /\ sends' = [sends EXCEPT ![s] = NoSend]
  /\ draft' = NoDraft
  /\ AnswerShown
  /\ leaving' \in {leaving, leaving + 1}
  /\ UNCHANGED <<clicked, photoPosts, says, picked, left, removed, doubted>>

\* A timer opens its post, wherever the user is by then.
OpenPost == leaving > 0 /\ LeaveAssistant(leaving - 1)

\* One round of askAiAssistant: the model calls tools, or is done, and its
\* answer may hold text or none.  After the last round the tools have run, and
\* what they found is sent to nobody.
ModelRound(s) ==
  /\ sends[s].at = "model"
  /\ \E tools \in BOOLEAN, text \in BOOLEAN :
       LET last == ~tools \/ sends[s].round + 1 = MAX_TOOL_ROUNDS IN
       /\ last => text
       /\ sends' = [sends EXCEPT ![s].round = @ + 1, ![s].at = IF last THEN "answered" ELSE "model"]
  /\ UNCHANGED <<pageState, leaving, clicked, photoPosts, says, answers, picked, left, assistantHistory>>

Answered(s) ==
  /\ sends[s].at = "answered"
  /\ sends' = [sends EXCEPT ![s] = NoSend]
  /\ AnswerShown
  /\ UNCHANGED <<draft, leaving, clicked, photoPosts, says, picked, left, removed, doubted>>

\* The catch block: what was attached, selected or drafted stays.
SendFails(s) ==
  /\ sends[s] # NoSend
  /\ sends' = [sends EXCEPT ![s] = NoSend]
  /\ isSending' = FALSE /\ answers' = answers + 1
  /\ doubted' = (doubted \/ sends[s].at = "created")
  /\ UNCHANGED <<attachedImage, selectedType, draft, leaving, clicked, photoPosts, says, picked, left,
                 removed, ignored>>

AssistantNext ==
  \/ HandleImageChange \/ RemoveImage \/ LeavePageOfAssistant \/ OpenPost
  \/ \E k \in Kinds : SelectType(k)
  \/ \E told \in Said : Enter(told)
  \/ \E told \in Suggestions : ClickSuggestion(told)
  \/ \E c \in clicked : SendSuggestion(c)
  \/ \E s \in Sends : \/ UploadImage(s) \/ CreateAiAutoPost(s) \/ Created(s)
                      \/ ModelRound(s) \/ Answered(s) \/ SendFails(s)

-----------------------------------------------------------------------------
Kept(photo) ==
  \/ attachedImage = photo \/ draft.photo = photo
  \/ \E s \in Sends : sends[s].photo = photo

\* However a conversation goes and whichever of its calls fail, a photo is posted
\* once, unless it was not known whether a post had been made, two sends
\* overlapped or the page changed within a suggestion's frame; until then it is
\* attached, drafted or under way, unless the user took it away, or it was attached
\* to a reply to a draft that went through: the page drops such a photo unposted,
\* even when the draft has none.  A message that fails, a reply to a draft as well,
\* keeps its photo; and the page answers every message and is ready for the next
\* (AiAssistant.tsx, sendMessage).
PhotosEndUpInOnePost ==
  ~doubted =>
    /\ \A photo \in 1..picked :
         /\ photoPosts[photo] <= 1
         /\ photo \notin removed \cup ignored => photoPosts[photo] = 1 \/ Kept(photo)
         /\ photoPosts[photo] = 1 /\ attachedImage = photo => \E s \in Sends : sends[s].photo = photo
    /\ answers = says - Cardinality({s \in Sends : sends[s] # NoSend})
    /\ isSending <=> \E s \in Sends : sends[s] # NoSend
=============================================================================
