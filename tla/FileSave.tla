------------------------------ MODULE FileSave ------------------------------
(***************************************************************************)
(* The client half of the whole-document save: the autosave of the four    *)
(* editors, saveFileWithDraft and updateFile of filesStore.js, and the     *)
(* drafts in IndexedDB, over a server that compares and swaps on rev       *)
(* (FileStore models its inside).  An action runs from one await to the    *)
(* next.  The tabs are those of one browser: they share the draft of the   *)
(* file, not the Zustand store.  A content is the number of the edit that  *)
(* made it, 0 what the document held at first.                             *)
(*                                                                         *)
(*   docs        autosaves what the editor holds when the timer fires      *)
(*   sheets      autosaves what it held when the timer was set             *)
(*   slides      the same, by updateFile itself: no draft, no retry        *)
(*   whiteboard  as docs, without retries, and never reads a draft         *)
(***************************************************************************)
EXTENDS Naturals, FiniteSets

CONSTANTS Tab,
          Kind,       \* the editors to consider, of the four above
          Save,       \* bound: saves under way at once
          MaxAtOnce,  \* bound: tabs open and saves under way, together
          MaxRetries, \* retries after a failed save (3)
          MaxEdits,   \* bound: edits ever made
          MaxRev,     \* bound: the server's rev when a save starts
          MaxFaults   \* bound: requests lost and tabs killed

VARIABLES kind,     \* the editor of this file
          tab,      \* tab[t]: the editor and its files store
          save,     \* save[s]: one saveFileWithDraft or updateFile under way
          draft,    \* the draft of the file in IndexedDB
          server,   \* its record on the server
          edits, faults,
          accepted, \* history: contents the server has taken
          crossed   \* history: tabs of which two saves have been under way at
                    \* once, or a draft was restored when one was due or done

vars == <<kind, tab, save, draft, server, edits, faults, accepted, crossed>>

Content == 0..MaxEdits
None == MaxEdits + 1
Rev == Nat

Captures == kind \in {"sheets", "slides"}
Drafts == kind # "slides"
Retries == kind \in {"docs", "sheets"}
Restores == kind \in {"docs", "sheets"}

(* timer holds what it will save; retry the number of the retry it starts; *)
(* status is the save state of the file - of slides the flag "saved" (idle *)
(* at first, then dirty or saved), of which "saving" is independent.       *)
TabState ==
  [open : BOOLEAN, doc : Content, known : Rev,
   timer : Content \union {None}, retry : 0..MaxRetries,
   status : {"idle", "dirty", "saving", "saved", "error"},
   offer : Content \union {None}]
Closed ==
  [open |-> FALSE, doc |-> 0, known |-> 0, timer |-> None, retry |-> 0,
   status |-> "idle", offer |-> None]
SaveState ==
  [tab : Tab, at : {"none", "draft", "sent", "answered", "clear"},
   content : Content, rev : Rev, retry : 0..MaxRetries, second : BOOLEAN,
   answer : {"none", "ok", "conflict", "failed"}, current : Rev]
NoSave ==
  [tab |-> CHOOSE t \in Tab : TRUE, at |-> "none", content |-> 0, rev |-> 0,
   retry |-> 0, second |-> FALSE, answer |-> "none", current |-> 0]

Init ==
  /\ kind \in Kind
  /\ tab = [t \in Tab |-> Closed]
  /\ save = [s \in Save |-> NoSave]
  /\ draft = None
  /\ server = [rev |-> 1, content |-> 0]
  /\ edits = 0 /\ faults = 0 /\ accepted = {0} /\ crossed = {}

-----------------------------------------------------------------------------
HasRoom ==
  Cardinality({t \in Tab : tab[t].open})
    + Cardinality({s \in Save : save[s].at # "none"}) < MaxAtOnce

(* The editor opens the file and, on mount, reads a draft to offer.        *)
Open(t) ==
  /\ ~tab[t].open /\ HasRoom
  /\ tab' = [tab EXCEPT ![t] =
       [Closed EXCEPT !.open = TRUE, !.doc = server.content,
                      !.known = server.rev,
                      !.offer = IF Restores THEN draft ELSE None]]
  /\ crossed' = crossed \union {u \in Tab : tab[u].open /\ tab[u].doc = draft}
  /\ UNCHANGED <<kind, save, draft, server, edits, faults, accepted>>

(* markDirty keeps quiet while a save is under way.                        *)
Dirtied(status) == IF status = "saving" THEN "saving" ELSE "dirty"

(* Whether a save is under way, and whether none is and none is due.       *)
Under(t) == {s \in Save : save[s].tab = t /\ save[s].at # "none"}
Saving(t) == Under(t) # {}

Quiet(t) == tab[t].timer = None /\ tab[t].retry = 0 /\ ~Saving(t)

(* Mutated form of Edit: a save that is due is left to run with what it    *)
(* captured.                                                               *)
EditKeepingTimer(t) ==
  /\ tab[t].open /\ edits < MaxEdits
  /\ edits' = edits + 1
  /\ tab' = [tab EXCEPT ![t] =
       [tab[t] EXCEPT !.doc = edits + 1, !.retry = 0, !.status = Dirtied(@),
                      !.timer = IF @ = None THEN edits + 1 ELSE @]]
  /\ crossed' = IF ~Drafts /\ Saving(t) THEN crossed \union {t} ELSE crossed
  /\ UNCHANGED <<kind, save, draft, server, faults, accepted>>

(* A change restarts the autosave timer and, unless it is one of the title *)
(* or page setup, cancels the retry.                                       *)
Edit(t) ==
  /\ tab[t].open /\ edits < MaxEdits
  /\ edits' = edits + 1
  /\ \E retry \in {0, tab[t].retry} :
       tab' = [tab EXCEPT ![t] =
         [tab[t] EXCEPT !.doc = edits + 1, !.timer = edits + 1,
                        !.retry = retry, !.status = Dirtied(@)]]
  /\ crossed' = IF ~Drafts /\ Saving(t) THEN crossed \union {t} ELSE crossed
  /\ UNCHANGED <<kind, save, draft, server, faults, accepted>>

(* doSave: a new save of the given content; slides go straight to          *)
(* updateFile, the others to saveFileWithDraft.                            *)
Start(t, content, retry, after) ==
  \E s \in Save :
    /\ save[s].at = "none" /\ server.rev < MaxRev /\ HasRoom
    /\ \A q \in Save : q < s => save[q].at # "none"
    /\ save' = [save EXCEPT ![s] =
         [NoSave EXCEPT !.tab = t, !.at = IF Drafts THEN "draft" ELSE "sent",
                        !.content = content, !.retry = retry,
                        !.rev = IF Drafts THEN 0 ELSE tab[t].known]]
    /\ crossed' = IF Saving(t) THEN crossed \union {t} ELSE crossed
    /\ tab' = [tab EXCEPT ![t] = 
         [after EXCEPT !.status = IF Drafts THEN "saving" ELSE @]]
    /\ UNCHANGED <<kind, draft, server, edits, faults, accepted>>

(* The autosave timer, which also fires once the editor is unmounted; the  *)
(* Save button; the retry timer, which saves what the editor holds by      *)
(* then.                                                                   *)
Autosave(t) ==
  /\ tab[t].open /\ tab[t].timer # None
  /\ Start(t, IF Captures THEN tab[t].timer ELSE tab[t].doc, 0,
           [tab[t] EXCEPT !.timer = None])
SaveNow(t) ==
  /\ tab[t].open
  /\ Start(t, tab[t].doc, 0, [tab[t] EXCEPT !.timer = None, !.retry = 0])
Retry(t) ==
  /\ tab[t].open /\ tab[t].retry # 0
  /\ Start(t, tab[t].doc, tab[t].retry, [tab[t] EXCEPT !.retry = 0])

(* writeDraft is done: updateFile sends the rev the store knows by now.    *)
DraftWritten(s) ==
  /\ save[s].at = "draft"
  /\ draft' = save[s].content
  /\ save' = [save EXCEPT ![s].at = "sent", ![s].rev = tab[save[s].tab].known]
  /\ UNCHANGED <<kind, tab, server, edits, faults, accepted, crossed>>

(* Mutated form of Answer: a 409, which carries the current file, is taken *)
(* for a success.                                                          *)
AnswerAccepted(s, answer, rev) ==
  save' = [save EXCEPT
    ![s].answer = IF answer = "conflict" THEN "ok" ELSE answer,
    ![s].at = "answered", ![s].current = rev]

(* The server takes a save whose rev is the one it holds, and answers with *)
(* the file it then has; or else 409 with the current one.                 *)
Answer(s, answer, rev) ==
  save' = [save EXCEPT ![s].at = "answered", ![s].answer = answer,
                       ![s].current = rev]
Serve(s) ==
  /\ save[s].at = "sent"
  /\ IF save[s].rev = server.rev
       THEN /\ server' = [rev |-> server.rev + 1, content |-> save[s].content]
            /\ accepted' = accepted \union {save[s].content}
            /\ Answer(s, "ok", server.rev + 1)
       ELSE /\ Answer(s, "conflict", server.rev)
            /\ UNCHANGED <<server, accepted>>
  /\ UNCHANGED <<kind, tab, draft, edits, faults, crossed>>

(* The request, or the answer to it, is lost.                              *)
Lose(s) ==
  /\ faults < MaxFaults /\ faults' = faults + 1
  /\ \/ save[s].at = "sent"
     \/ save[s].at = "answered" /\ save[s].answer # "failed"
  /\ Answer(s, "failed", 0)
  /\ UNCHANGED <<kind, tab, draft, server, edits, accepted, crossed>>

(* updateFile resumes.  A conflict adopts the server's file and sends the  *)
(* same content again, once.                                               *)
Knows(t, rev) == tab' = [tab EXCEPT ![t].known = rev]
Answered(s) ==
  LET p == save[s]
      t == p.tab
  IN  /\ p.at = "answered"
      /\ \/ /\ p.answer = "ok"
            /\ IF Drafts
                 THEN /\ save' = [save EXCEPT ![s].at = "clear"]
                      /\ Knows(t, p.current)
                 ELSE /\ save' = [save EXCEPT ![s] = NoSave]
                      /\ tab' = [tab EXCEPT ![t] =
                           [@ EXCEPT !.known = p.current, !.status = "saved"]]
         \/ /\ p.answer = "conflict" /\ ~p.second
            /\ save' = [save EXCEPT ![s] =
                 [@ EXCEPT !.at = "sent", !.rev = p.current, !.second = TRUE,
                           !.answer = "none", !.current = 0]]
            /\ Knows(t, p.current)
         \/ /\ p.answer = "failed" \/ (p.answer = "conflict" /\ p.second)
            /\ save' = [save EXCEPT ![s] = NoSave]
            /\ tab' = [tab EXCEPT ![t] =
                 [tab[t] EXCEPT !.status = IF Drafts THEN "error" ELSE @,
                    !.known = IF p.answer = "conflict" THEN p.current ELSE @,
                    !.retry = IF Retries /\ p.retry < MaxRetries
                                THEN p.retry + 1 ELSE @]]
      /\ UNCHANGED <<kind, draft, server, edits, faults, accepted, crossed>>

(* clearDraft is done.                                                     *)
DraftCleared(s) ==
  /\ save[s].at = "clear"
  /\ draft' = None
  /\ save' = [save EXCEPT ![s] = NoSave]
  /\ tab' = [tab EXCEPT ![save[s].tab].status = "saved"]
  /\ UNCHANGED <<kind, server, edits, faults, accepted, crossed>>

(* Mutated form of RestoreDraft: the draft is cleared as soon as it is     *)
(* shown.                                                                  *)
RestoreDraftAndClear(t) ==
  /\ tab[t].open /\ tab[t].offer # None
  /\ tab' = [tab EXCEPT ![t] =
       [tab[t] EXCEPT !.doc = tab[t].offer, !.offer = None,
                      !.status = Dirtied(@)]]
  /\ draft' = None
  /\ UNCHANGED <<kind, save, server, edits, faults, accepted, crossed>>

(* The banner of a pending draft: restoring it sets no timer.              *)
RestoreDraft(t) ==
  /\ tab[t].open /\ tab[t].offer # None
  /\ tab' = [tab EXCEPT ![t] =
       [tab[t] EXCEPT !.doc = tab[t].offer, !.offer = None,
                      !.status = Dirtied(@)]]
  /\ crossed' = IF Quiet(t) /\ draft = tab[t].offer
                     /\ (\A u \in Tab \ {t} : ~tab[u].open)
                  THEN crossed ELSE crossed \union {t}
  /\ UNCHANGED <<kind, save, draft, server, edits, faults, accepted>>
DiscardDraft(t) ==
  /\ tab[t].open /\ tab[t].offer # None
  /\ tab' = [tab EXCEPT ![t].offer = None]
  /\ draft' = None
  /\ UNCHANGED <<kind, save, server, edits, faults, accepted, crossed>>

(* The tab crashes or is closed; a save it had sent may still be served.   *)
Kill(t) ==
  /\ tab[t].open /\ faults < MaxFaults /\ faults' = faults + 1
  /\ tab' = [tab EXCEPT ![t] = Closed]
  /\ LET sent == {s \in Under(t) :
                     save[s].at = "sent" /\ save[s].rev = server.rev}
     IN  \/ UNCHANGED <<server, accepted>>
         \/ \E s \in sent :
              /\ server' = [rev |-> server.rev + 1,
                            content |-> save[s].content]
              /\ accepted' = accepted \union {save[s].content}
  /\ save' = [s \in Save |-> IF s \in Under(t) THEN NoSave ELSE save[s]]
  /\ UNCHANGED <<kind, draft, edits, crossed>>

Step(t) ==
  \/ Open(t) \/ Edit(t) \/ Autosave(t) \/ SaveNow(t) \/ Retry(t)
  \/ RestoreDraft(t) \/ DiscardDraft(t) \/ Kill(t)
Resume(s) ==
  \/ DraftWritten(s) \/ Serve(s) \/ Lose(s) \/ Answered(s) \/ DraftCleared(s)

Next == (\E t \in Tab : Step(t)) \/ (\E s \in Save : Resume(s))
Spec == Init /\ [][Next]_vars

-----------------------------------------------------------------------------
TypeOK ==
  /\ kind \in Kind
  /\ tab \in [Tab -> TabState] /\ save \in [Save -> SaveState]
  /\ draft \in Content \union {None}
  /\ server.rev \in Rev /\ server.content \in Content
  /\ accepted \subseteq Content /\ crossed \subseteq Tab

(* What a tab shows and the server has never had will be saved, or its     *)
(* user has been told: a timer is set, a save or a retry of it is under    *)
(* way, the tab shows an error, or the draft it was restored from is still *)
(* there.  Unless two saves of the tab were under way at once, for then    *)
(* the success of one hides the failure of the other, or a draft was       *)
(* restored while an older save was due, which overwrites it, or after one *)
(* that cleared it (restoring sets no timer), or two tabs share it; or, of *)
(* slides, an edit was made while a save was under way, whose success then *)
(* says "saved" of it.                                                     *)
UnsavedIsPendingOrTold ==
  \A t \in Tab \ crossed :
    tab[t].open /\ tab[t].doc \notin accepted =>
      \/ tab[t].timer # None \/ tab[t].retry # 0
      \/ tab[t].status = IF Drafts THEN "error" ELSE "dirty"
      \/ \E s \in Under(t) : save[s].content = tab[t].doc
      \/ draft = tab[t].doc

(* When the only tab that writes has nothing left to save and says         *)
(* "saved", the server holds what the tab shows.  (Slides may show the     *)
(* "saved" of an earlier save when a later one has failed.)                *)
SavedIsWhatIsShown ==
  Drafts => \A t \in Tab \ crossed :
    /\ tab[t].open /\ Quiet(t) /\ tab[t].status = "saved"
    /\ server.rev = tab[t].known
    => server.content = tab[t].doc
=============================================================================
