-------------------------------- MODULE Composer --------------------------------
(***************************************************************************)
(* The composer: one text area for all threads.  Its text is state of its  *)
(* own, kept next to the draft of the thread on screen; images, queued     *)
(* messages and prompt history are kept per thread, per draft and per      *)
(* workspace; dictation, the suggestions and the review prompt share the   *)
(* area and its keys.                                                      *)
(*                                                                         *)
(* A text is a sequence of pieces <<where it was entered, kind>>.          *)
(***************************************************************************)
EXTENDS Naturals, Sequences, FiniteSets, SequencesExt

CONSTANTS
  Owner,   \* the workspace of each thread, and of the new agent's draft
  Draft,   \* that draft, in the domain of Owner
  First,   \* what is on screen at the start
  MaxText, \* bound: pieces of a text
  Budgets  \* bound: what may happen in a behaviour, a set of records

VARIABLES
  at,      \* the thread or the draft on screen; "home" when the composer is not
  area,    \* the composer's own state, see Mounted
  drafts,  \* composerDraftsByThread
  images,  \* imagesByThread
  queue,   \* queuedByThread
  recall,  \* the prompt history of each workspace, in storage as in memory
  prompt,  \* reviewPrompt, <<>> or one
  state,   \* what the composer is told: the threads that process or review, dictation's state,
           \* its transcript and the draft to put in
  jobs,    \* async functions under way
  sent,    \* history: the messages sent
  left

vars == <<at, area, drafts, images, queue, recall, prompt, state, jobs, sent, left>>

Home == "home"
Place == DOMAIN Owner
Thread == Place \ {Draft}
DraftOf(p) == IF p \in Thread THEN drafts[p] ELSE <<>>
Spend(what) == left[what] > 0 /\ left' = [left EXCEPT ![what] = @ - 1]
Kind(text) == IF text = <<>> THEN "none" ELSE Last(text)[2]
Bound(text, bound) == {b \in bound : \E i \in DOMAIN text : text[i][2] = b}

\* bound: the apps the text's mentions stand for. index: the place in the
\* history, 0 when it is not being walked. dismissed: the suggestions are.
Mounted(text) == [text |-> text, bound |-> {}, index |-> 0, dismissed |-> FALSE, menu |-> FALSE]

isReviewing == at \in state.reviewing
isProcessing == at \in state.processing
isDictationBusy == state.dictation # "idle"
canSend == area.text # <<>> \/ images[at] # {}
reviewPromptOpen == prompt # <<>>
isAutocompleteOpen == Kind(area.text) = "trigger" /\ ~area.dismissed
suggestionsOpen == reviewPromptOpen \/ isAutocompleteOpen
Here == at # Home

setComposerText(text) ==
  drafts' = IF at \in Thread THEN [drafts EXCEPT ![at] = text] ELSE drafts
Write(text) == /\ area' = [area EXCEPT !.text = text, !.dismissed = @ /\ text = area.text]
               /\ setComposerText(text)
Piece(kind) == <<at, kind>>
Fits == Len(area.text) < MaxText

(***************************************************************************)
(* Another place is shown: the effects of the render.                      *)
(***************************************************************************)
ShownText(from, to) ==
  IF from = Home \/ DraftOf(to) # DraftOf(from) THEN DraftOf(to) ELSE area.text
\* What waited for a composer goes into it.
Prefilled(a) ==
  IF state.prefill = <<>> THEN a
    ELSE [a EXCEPT !.text = state.prefill[1].text, !.bound = state.prefill[1].bound, !.index = 0]
Shows(p) ==
  LET text == ShownText(at, p)
      a == IF at = Home THEN Mounted(text)
           ELSE IF Owner[p] # Owner[at]
             THEN [area EXCEPT !.text = text, !.bound = {}, !.index = 0]
             ELSE [area EXCEPT !.text = text]
      b == [Prefilled(a) EXCEPT !.menu = @ /\ p \notin state.reviewing]
  IN /\ area' = b
     /\ drafts' = IF state.prefill # <<>> /\ p \in Thread
                  THEN [drafts EXCEPT ![p] = b.text] ELSE drafts
     /\ state' = [state EXCEPT !.prefill = <<>>]
     /\ prompt' = <<>>
Selects(p) ==
  /\ p # at /\ Spend("moves") /\ at' = p
  /\ IF p = Home
       THEN area' = Mounted(<<>>) /\ prompt' = <<>> /\ UNCHANGED <<drafts, state>>
       ELSE Shows(p)
  /\ UNCHANGED <<images, queue, recall, jobs, sent>>
\* clearDraftForThread and removeImagesForThread, as its thread goes.
onDeleteThread(t) ==
  /\ at = t /\ t \in Thread /\ Spend("moves")
  /\ at' = Home /\ area' = Mounted(<<>>) /\ prompt' = <<>>
  /\ drafts' = [drafts EXCEPT ![t] = <<>>] /\ images' = [images EXCEPT ![t] = {}]
  /\ UNCHANGED <<queue, recall, state, jobs, sent>>

(***************************************************************************)
(* Typing.                                                                 *)
(***************************************************************************)
Typing == Here /\ ~isReviewing
handleTextChange(kind) ==
  /\ Typing /\ Fits /\ Spend("types")
  /\ area' = [area EXCEPT !.text = Append(@, Piece(kind)), !.index = 0, !.dismissed = FALSE]
  /\ setComposerText(area'.text)
  /\ UNCHANGED <<at, images, queue, recall, prompt, state, jobs, sent>>
Deletes ==
  /\ Typing /\ area.text # <<>> /\ Spend("types")
  /\ area' = [area EXCEPT !.text = Front(@), !.index = 0, !.dismissed = FALSE]
  /\ setComposerText(area'.text)
  /\ UNCHANGED <<at, images, queue, recall, prompt, state, jobs, sent>>
\* What the editor puts in itself, and with it no word to the history: a
\* fence around what is pasted or the line it was asked for, the marker of a list,
\* a line.
applyTextInsertion ==
  /\ Typing /\ Fits /\ Spend("types") /\ Write(Append(area.text, Piece("word")))
  /\ UNCHANGED <<at, images, queue, recall, prompt, state, jobs, sent>>
tryExpandFence == Kind(area.text) # "fence" /\ applyTextInsertion
handleTextPaste == applyTextInsertion
\* A file or a prompt put in from another panel: into the draft, which becomes the text.
handleInsertComposerText ==
  /\ at \in Thread /\ Len(drafts[at]) < MaxText /\ Spend("types")
  /\ drafts' = [drafts EXCEPT ![at] = Append(@, Piece("word"))]
  /\ area' = [area EXCEPT !.text = drafts'[at], !.dismissed = FALSE]
  /\ UNCHANGED <<at, images, queue, recall, prompt, state, jobs, sent>>

\* Files, prompts and commands are words; skills are too, apps are not.
Offered == {"word", "app"}
\* The suggestion picked replaces what brought it up; an app's is bound.
applyAutocomplete(kind) ==
  /\ Typing /\ isAutocompleteOpen /\ ~reviewPromptOpen
  /\ area' = [area EXCEPT !.text = Append(Front(@), Piece(kind)), !.dismissed = TRUE,
                          !.bound = IF kind = "app" THEN @ \cup {kind} ELSE @]
  /\ setComposerText(area'.text)
  /\ UNCHANGED <<at, images, queue, recall, prompt, state, jobs, sent, left>>
closeAutocomplete ==
  /\ Typing /\ isAutocompleteOpen /\ ~reviewPromptOpen /\ area' = [area EXCEPT !.dismissed = TRUE]
  /\ UNCHANGED <<at, drafts, images, queue, recall, prompt, state, jobs, sent, left>>

\* The history is entered from an empty composer, and left at its end.
History == recall[Owner[at]]
Walks(index) ==
  LET text == IF index = 0 THEN <<>> ELSE [i \in DOMAIN History[index] |-> Piece(History[index][i])] IN
  /\ area' = [area EXCEPT !.index = index, !.text = text, !.dismissed = @ /\ text = area.text]
  /\ setComposerText(text)
handleHistoryKeyDown(key) ==
  /\ Typing /\ ~suggestionsOpen /\ History # <<>> /\ Spend("types")
  /\ \/ key = "ArrowUp" /\ area.index = 0 /\ ~canSend /\ Walks(Len(History))
     \/ key = "ArrowUp" /\ area.index > 1 /\ Walks(area.index - 1)
     \/ /\ key = "ArrowDown" /\ area.index > 0
        /\ Walks(IF area.index >= Len(History) THEN 0 ELSE area.index + 1)
  /\ UNCHANGED <<at, images, queue, recall, prompt, state, jobs, sent>>
Recorded(r, text) ==
  LET kinds == [i \in DOMAIN text |-> text[i][2]] IN
  IF r # <<>> /\ Last(r) = kinds THEN r ELSE Append(r, kinds)

(***************************************************************************)
(* Sending.                                                                *)
(***************************************************************************)
Message(text, pics, bound) == [text |-> text, images |-> pics, bound |-> bound]
\* To the queue when the thread is busy and the message does not steer it.
\* Else connected, sent, and then the images are let go of; a command leaves
\* them behind too.
handleSend(intent) ==
  /\ Here /\ ~isReviewing /\ canSend /\ Spend("sends")
  /\ LET command == area.text # <<>> /\ area.text[1][2] = "slash"
         pics == IF command THEN {} ELSE images[at]
         msg == Message(area.text, pics, IF command THEN {} ELSE Bound(area.text, area.bound))
         queued == at \in Thread /\ isProcessing /\ intent = "queue"
     IN /\ queue' = IF queued THEN [queue EXCEPT ![at] = Append(@, msg)] ELSE queue
        /\ images' = IF queued THEN [images EXCEPT ![at] = {}] ELSE images
        /\ jobs' = IF queued THEN jobs
             ELSE jobs \cup {[op |-> IF command THEN "command" ELSE "send", for |-> at,
                              msg |-> msg, id |-> left["sends"]]}
  /\ recall' = IF area.text = <<>> THEN recall ELSE [recall EXCEPT ![Owner[at]] = Recorded(@, area.text)]
  /\ area' = [area EXCEPT !.text = <<>>, !.bound = {}, !.index = 0, !.dismissed = FALSE]
  /\ setComposerText(<<>>)
  /\ UNCHANGED <<at, prompt, state, sent>>
\* Enter, when neither the suggestions nor the review prompt take it.
onKeyDownEnter(intent) == ~suggestionsOpen /\ ~isDictationBusy /\ handleSend(intent)
handleActionClick(intent) == ~isDictationBusy /\ ~isProcessing /\ handleSend(intent)
\* Sent, or not: the images attached by then are let go of.
SendEnds(j) ==
  /\ j.op = "send"
  /\ sent' = sent \cup {[to |-> j.for, msg |-> j.msg]}
  /\ images' = [images EXCEPT ![j.for] = {}] /\ jobs' = jobs \ {j}
  /\ UNCHANGED <<at, area, drafts, queue, recall, prompt, state, left>>
\* It did not steer: in the queue again, to go later.
SteerFails(j) ==
  /\ j.op = "send" /\ j.for \in Thread /\ Spend("fails")
  /\ queue' = [queue EXCEPT ![j.for] = Append(@, j.msg)]
  /\ images' = [images EXCEPT ![j.for] = {}] /\ jobs' = jobs \ {j}
  /\ UNCHANGED <<at, area, drafts, recall, prompt, state, sent>>
Flushes(t) ==
  /\ queue[t] # <<>> /\ t \notin state.processing
  /\ sent' = sent \cup {[to |-> t, msg |-> Head(queue[t])]} /\ queue' = [queue EXCEPT ![t] = Tail(@)]
  /\ UNCHANGED <<at, area, drafts, images, recall, prompt, state, jobs, left>>
handleEditQueued ==
  /\ at \in Thread /\ queue[at] # <<>> /\ Spend("types")
  /\ queue' = [queue EXCEPT ![at] = Tail(@)]
  /\ images' = [images EXCEPT ![at] = Head(queue[at]).images]
  /\ area' = [area EXCEPT !.text = Head(queue[at]).text, !.bound = Head(queue[at]).bound,
                          !.index = 0, !.dismissed = FALSE]
  /\ setComposerText(area'.text)
  /\ UNCHANGED <<at, recall, prompt, state, jobs, sent>>
handleDeleteQueued ==
  /\ at \in Thread /\ queue[at] # <<>> /\ Spend("types") /\ queue' = [queue EXCEPT ![at] = Tail(@)]
  /\ UNCHANGED <<at, area, drafts, images, recall, prompt, state, jobs, sent>>
\* A draft that was asked for elsewhere.
setPrefillDraft ==
  /\ Spend("prefills") /\ state.prefill = <<>>
  /\ LET item == Message(<<<<IF Here THEN at ELSE Draft, "word">>>>, {}, {}) IN
     IF Here THEN /\ area' = [area EXCEPT !.text = item.text, !.bound = {}, !.index = 0,
                                          !.dismissed = FALSE]
                  /\ setComposerText(item.text) /\ UNCHANGED state
             ELSE state' = [state EXCEPT !.prefill = <<item>>] /\ UNCHANGED <<area, drafts>>
  /\ UNCHANGED <<at, images, queue, recall, prompt, jobs, sent>>

(***************************************************************************)
(* Images: picked in a dialog or read from what was dropped or pasted,     *)
(* they are attached where that began.                                     *)
(***************************************************************************)
pickImages ==
  /\ Here /\ ~isReviewing /\ Spend("images")
  /\ jobs' = jobs \cup {[op |-> "pick", for |-> at, id |-> left["images"]]}
  /\ area' = [area EXCEPT !.menu = FALSE]
  /\ UNCHANGED <<at, drafts, images, queue, recall, prompt, state, sent>>
handleDrop == pickImages
handlePaste == pickImages
attachImages(j, found) ==
  /\ j.op = "pick" /\ jobs' = jobs \ {j}
  /\ images' = IF found THEN [images EXCEPT ![j.for] = @ \cup {j.for}] ELSE images
  /\ UNCHANGED <<at, area, drafts, queue, recall, prompt, state, sent, left>>
removeImage ==
  /\ Here /\ ~isReviewing
  /\ \E i \in images[at] : images' = [images EXCEPT ![at] = @ \ {i}]
  /\ UNCHANGED <<at, area, drafts, queue, recall, prompt, state, jobs, sent, left>>
\* The phone's menu of the same actions.
setMobileActionsOpen ==
  /\ Here /\ ~isReviewing /\ Spend("images") /\ area' = [area EXCEPT !.menu = ~@]
  /\ UNCHANGED <<at, drafts, images, queue, recall, prompt, state, jobs, sent>>

(***************************************************************************)
(* Dictation.                                                              *)
(***************************************************************************)
handleMicClick ==
  /\ Here /\ ~isReviewing /\ area' = [area EXCEPT !.menu = FALSE]
  /\ IF isDictationBusy THEN UNCHANGED left ELSE Spend("talks")
  /\ state' = [state EXCEPT !.dictation = CASE @ = "idle" -> "listening"
                                            [] @ = "listening" -> "processing"
                                            [] OTHER -> "idle"]
  /\ UNCHANGED <<at, drafts, images, queue, recall, prompt, jobs, sent>>
\* Put where the cursor is, in the composer on screen.
TranscriptComes ==
  /\ state.dictation = "processing" /\ Here /\ Fits
  /\ state' = [state EXCEPT !.dictation = "idle"]
  /\ area' = [area EXCEPT !.text = Append(@, Piece("word")), !.index = 0, !.dismissed = FALSE]
  /\ setComposerText(area'.text)
  /\ UNCHANGED <<at, images, queue, recall, prompt, jobs, sent, left>>

(***************************************************************************)
(* The review prompt.                                                      *)
(***************************************************************************)
Steps == <<"baseBranch", "uncommitted", "commit", "custom">>
Lists == {"baseBranch", "commit"}
P == prompt[1]
FirstOf(list) == IF list = <<>> THEN 0 ELSE 1
Set(p) == prompt' = <<p>>
Only == UNCHANGED <<at, area, drafts, images, queue, recall, state, sent>>

\* /review opens it once the command runs, and its lists are asked for.
openReviewPrompt(j) ==
  /\ j.op = "command"
  /\ IF Here /\ at = j.for /\ at # Draft
       THEN /\ Set([for |-> at, step |-> "preset", list |-> <<>>, highlighted |-> 1,
                    selected |-> [s \in Lists |-> 0], text |-> FALSE, submitting |-> FALSE])
            /\ jobs' = (jobs \ {j}) \cup {[op |-> "load", for |-> at, id |-> j.id]}
       ELSE jobs' = jobs \ {j} /\ UNCHANGED prompt
  /\ images' = [images EXCEPT ![j.for] = {}]
  /\ UNCHANGED <<at, area, drafts, queue, recall, state, sent, left>>
\* The answers fill in what nothing was chosen for.
Loaded(j, list) ==
  /\ j.op = "load" /\ jobs' = jobs \ {j}
  /\ IF reviewPromptOpen /\ Owner[P.for] = Owner[j.for]
       THEN LET chosen ==
                  [s \in Lists |-> IF P.selected[s] # 0 THEN P.selected[s] ELSE FirstOf(list)]
            IN Set([P EXCEPT !.list = list, !.selected = chosen,
                             !.highlighted = IF P.step \notin Lists THEN @
                               ELSE IF chosen[P.step] \in 1 .. Len(list) THEN chosen[P.step] ELSE 1])
       ELSE UNCHANGED prompt
  /\ UNCHANGED left /\ Only
closeReviewPrompt == reviewPromptOpen /\ prompt' = <<>> /\ UNCHANGED <<jobs, left>> /\ Only
showPresetStep ==
  /\ reviewPromptOpen /\ P.step # "preset" /\ ~P.submitting /\ Spend("choices")
  /\ Set([P EXCEPT !.step = "preset", !.highlighted = 1]) /\ UNCHANGED jobs /\ Only
runReviewTarget(target) ==
  /\ reviewPromptOpen /\ ~P.submitting /\ Spend("choices")
  /\ Set([P EXCEPT !.submitting = TRUE])
  /\ jobs' = jobs \cup {[op |-> "review", for |-> P.for, target |-> target, id |-> left["choices"]]}
  /\ Only
choosePreset(i) ==
  /\ reviewPromptOpen /\ P.step = "preset"
  /\ IF Steps[i] = "uncommitted" THEN runReviewTarget(<<"uncommitted", 0>>)
     ELSE /\ ~P.submitting /\ Spend("choices")
          /\ Set([P EXCEPT !.step = Steps[i], !.highlighted = 1,
                           !.selected = [s \in Lists |-> IF s = Steps[i] THEN FirstOf(P.list)
                                                         ELSE @[s]]])
          /\ UNCHANGED jobs /\ Only
\* By the arrows or the pointer: the row is highlighted and selected in one.
selectAtIndex(i) ==
  /\ reviewPromptOpen /\ P.step \in Lists /\ i \in DOMAIN P.list /\ ~P.submitting
  /\ Spend("choices") /\ Set([P EXCEPT !.highlighted = i, !.selected[P.step] = i])
  /\ UNCHANGED jobs /\ Only
highlightPreset(i) ==
  /\ reviewPromptOpen /\ P.step = "preset" /\ P.highlighted # i /\ ~P.submitting
  /\ Spend("choices") /\ Set([P EXCEPT !.highlighted = i]) /\ UNCHANGED jobs /\ Only
updateCustomInstructions ==
  /\ reviewPromptOpen /\ P.step = "custom" /\ Spend("choices")
  /\ Set([P EXCEPT !.text = ~@]) /\ UNCHANGED jobs /\ Only
confirm ==
  /\ reviewPromptOpen
  /\ \/ P.step \in Lists /\ P.selected[P.step] # 0
        /\ runReviewTarget(<<P.step, P.selected[P.step]>>)
     \/ P.step = "custom" /\ P.text /\ runReviewTarget(<<"custom", 0>>)
ReviewRuns(j, success) ==
  /\ j.op = "review" /\ jobs' = jobs \ {j}
  /\ prompt' = IF success THEN <<>>
       ELSE IF reviewPromptOpen /\ Owner[P.for] = Owner[j.for]
         THEN <<[P EXCEPT !.submitting = FALSE]>> ELSE prompt
  /\ UNCHANGED left /\ Only

\* A turn starts or ends, a review does.
Becomes(t, what) ==
  /\ Spend("turns")
  /\ state' = [state EXCEPT ![what] = IF t \in @ THEN @ \ {t} ELSE @ \cup {t}]
  /\ area' = [area EXCEPT !.menu = @ /\ at \notin state'.reviewing]
  /\ UNCHANGED <<at, drafts, images, queue, recall, prompt, jobs, sent>>

Init ==
  /\ at = First /\ area = Mounted(<<>>)
  /\ drafts = [t \in Thread |-> <<>>] /\ images = [p \in Place |-> {}]
  /\ queue = [t \in Thread |-> <<>>]
  /\ recall = [w \in {Owner[p] : p \in Place} |-> <<>>] /\ prompt = <<>>
  /\ state = [processing |-> {}, reviewing |-> {}, dictation |-> "idle", prefill |-> <<>>]
  /\ jobs = {} /\ sent = {} /\ left \in Budgets

(***************************************************************************)
(* What each part of the composer offers.                                  *)
(***************************************************************************)
PresetStep == \E i \in 1 .. 4 : choosePreset(i) \/ highlightPreset(i)
BaseBranchStep == P.step = "baseBranch" /\ (confirm \/ \E i \in DOMAIN P.list : selectAtIndex(i))
CommitStep == P.step = "commit" /\ (confirm \/ \E i \in DOMAIN P.list : selectAtIndex(i))
CustomStep == P.step = "custom" /\ (confirm \/ updateCustomInstructions)
ReviewInlinePrompt ==
  /\ reviewPromptOpen
  /\ PresetStep \/ BaseBranchStep \/ CommitStep \/ CustomStep \/ showPresetStep
\* The keys do the same, and Escape closes it.
handleReviewPromptKeyDown == ReviewInlinePrompt \/ closeReviewPrompt
Suggestions == closeAutocomplete \/ \E k \in Offered : applyAutocomplete(k)
ComposerQueue == handleEditQueued \/ handleDeleteQueued
ComposerAttachments == removeImage
Keys ==
  \/ \E k \in {"ArrowUp", "ArrowDown"} : handleHistoryKeyDown(k)
  \/ \E i \in {"queue", "steer"} : onKeyDownEnter(i)
  \/ handleReviewPromptKeyDown \/ Suggestions \/ tryExpandFence
Buttons == handleMicClick \/ \E i \in {"queue", "steer"} : handleActionClick(i)
Inputs ==
  \/ \E k \in {"word", "trigger", "slash"} : handleTextChange(k)
  \/ Deletes \/ handleTextPaste \/ handlePaste \/ handleDrop \/ setMobileActionsOpen

Next ==
  \/ \E p \in Place \cup {Home} : Selects(p) \/ onDeleteThread(p)
  \/ Keys \/ Buttons \/ Inputs \/ ComposerQueue \/ ComposerAttachments
  \/ handleInsertComposerText \/ setPrefillDraft \/ TranscriptComes
  \/ \E t \in Thread : Flushes(t) \/ Becomes(t, "processing") \/ Becomes(t, "reviewing")
  \/ \E j \in jobs : \/ SendEnds(j) \/ SteerFails(j) \/ openReviewPrompt(j)
                     \/ \E b \in BOOLEAN : attachImages(j, b) \/ ReviewRuns(j, b)
                     \/ \E list \in {<<>>, <<"main", "dev">>} : Loaded(j, list)

Spec == Init /\ [][Next]_vars

----------------------------------------------------------------------------
\* What the composer shows and what goes out was entered there, or in the draft
\* of a new agent before it had a thread.
EnteredHere(text, place) == \A i \in DOMAIN text : text[i][1] \in {place, Draft}
OwnText ==
  /\ Here => EnteredHere(area.text, at)
  /\ \A t \in Thread : EnteredHere(drafts[t], t)
  /\ at \in Thread /\ drafts[at] # <<>> => area.text = drafts[at]
  /\ \A p \in Place : images[p] \subseteq {p}

\* So is what is sent, and an app goes with the text that names it.
SentFromHere ==
  LET Ok(msg, p) == /\ EnteredHere(msg.text, p) /\ msg.images \subseteq {p}
                    /\ msg.bound = Bound(msg.text, msg.bound)
  IN /\ \A m \in sent : Ok(m.msg, m.to)
     /\ \A t \in Thread : \A i \in DOMAIN queue[t] : Ok(queue[t][i], t)

\* The review prompt is about the thread on screen, shows what it has
\* selected, and says it submits only while a review of its workspace is started.
PromptIsHere ==
  reviewPromptOpen =>
    /\ P.for = at
    /\ P.step \in Lists /\ P.list # <<>> => P.highlighted = P.selected[P.step]
    /\ P.submitting => \E j \in jobs : j.op = "review" /\ Owner[j.for] = Owner[P.for]
=============================================================================
