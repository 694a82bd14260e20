------------------------------- MODULE ConfigEdit -------------------------------
(* The file config.yaml and the processes that write it: the commands, each of      *)
(* which plans, checks and saves one edit (config_edit.py), the config tool, which   *)
(* holds a document for as long as it is open (configtool/model.py), and the         *)
(* operator's editor.  A document is the set of the edits in it.                     *)
EXTENDS Naturals, FiniteSets

CONSTANTS Writers, NoFile,
          BadEdits,                \* those that leave an error the validator finds
          MaxEdits, MaxDeaths      \* bounds of the instance

VARIABLES file,       \* config.yaml: its document, who wrote it, and whether all of it
          temp,       \* config.yaml.tmp, likewise
          backups,    \* the documents in .config-backups
          writer,     \* what each writer is doing
          edits, deaths,
          accepted,   \* the edits whose command or form said that they are saved
          refused,    \* those of which it said that nothing was written
          byHand,     \* those the operator made in an editor
          overwritten, \* history: those the config tool saved an older document over
          overlapped  \* history: one saved while another was between its check and its end

editVars == <<file, temp, backups, writer, edits, deaths, accepted, refused, byHand,
              overwritten, overlapped>>

Edits == 1 .. MaxEdits
Idle == [tool |-> FALSE, at |-> "idle", seen |-> {}, doc |-> {}, edit |-> 0, fresh |-> FALSE,
         done |-> FALSE]
SaveSteps == {"clear", "create", "dump", "validate", "backup", "replace", "unlink"}
Contents == [doc : SUBSET Edits, by : Writers \cup {NoFile}, whole : BOOLEAN]

TypeOK ==
    /\ {file, temp} \subseteq Contents \cup {NoFile}
    /\ backups \subseteq SUBSET Edits
    /\ writer \in [Writers -> [tool : BOOLEAN, seen : SUBSET Edits, doc : SUBSET Edits,
                               edit : 0 .. MaxEdits, fresh : BOOLEAN, done : BOOLEAN,
                               at : {"idle", "planned", "open"} \cup SaveSteps]]
    /\ edits \in 0 .. MaxEdits /\ deaths \in 0 .. MaxDeaths
    /\ accepted \cup refused \cup byHand \cup overwritten \subseteq Edits
    /\ overlapped \in BOOLEAN

Init ==
    /\ file \in {NoFile, [doc |-> {}, by |-> NoFile, whole |-> TRUE]} /\ temp = NoFile
    /\ backups = {} /\ writer = [w \in Writers |-> Idle]
    /\ edits = 0 /\ deaths = 0
    /\ accepted = {} /\ refused = {} /\ byHand = {} /\ overwritten = {} /\ overlapped = FALSE

-----------------------------------------------------------------------------
\* An absent file is an empty document.
Document == IF file = NoFile THEN {} ELSE file.doc
Errors(doc) == doc \cap BadEdits

Set(w, state) == writer' = [writer EXCEPT ![w] = state]
At(w, step) == Set(w, [writer[w] EXCEPT !.at = step])

\* Where a writer is when its edit has been saved or given up; a form takes back the
\* change it tried.
AtRest(w) ==
    LET me == writer[w] IN
    IF ~me.tool THEN Idle
    ELSE [me EXCEPT !.at = "open", !.edit = 0, !.done = FALSE,
                    !.doc = IF me.done THEN me.doc ELSE me.doc \ {me.edit}]

Refuse(w) == Set(w, AtRest(w)) /\ refused' = refused \cup {writer[w].edit}

\* To save begins when somebody else is at it.
Enters(w) ==
    overlapped' = (overlapped \/ \E v \in Writers \ {w} : writer[v].at \in SaveSteps)

-----------------------------------------------------------------------------
(* A command.                                                               *)

\* edit_document reads the file, applies the edit and validates the result beside the
\* file: it refuses an edit that was planned on another version, that does not apply, or
\* whose result has any error, and ends here if it is a dry run.
Plan(w) ==
    /\ writer[w] = Idle /\ edits < MaxEdits /\ edits' = edits + 1
    /\ \/ /\ Errors(Document \cup {edits'}) = {}
          /\ Set(w, [Idle EXCEPT !.at = "planned", !.seen = Document,
                                 !.doc = Document \cup {edits'}, !.edit = edits'])
          /\ UNCHANGED refused
       \/ refused' = refused \cup {edits'} /\ UNCHANGED writer
    /\ UNCHANGED <<file, temp, backups, deaths, accepted, byHand, overwritten, overlapped>>

\* Mutant: the second look at the file is left out.
SameVersionMutant(w) == TRUE

\* The file is still the one the edit was planned on.
SameVersion(w) == Document = writer[w].seen

Recheck(w) ==
    /\ writer[w].at = "planned"
    /\ \/ SameVersion(w) /\ Enters(w) /\ UNCHANGED refused
          /\ Set(w, [writer[w] EXCEPT !.at = "clear", !.fresh = (file = NoFile)])
       \/ ~SameVersion(w) /\ Refuse(w) /\ UNCHANGED overlapped
    /\ UNCHANGED <<file, temp, backups, edits, deaths, accepted, byHand, overwritten>>

-----------------------------------------------------------------------------
(* The config tool.                                                         *)

\* EditableConfig.load, which wants a file, and reload.
Open(w) ==
    /\ writer[w] = Idle \/ writer[w].at = "open"
    /\ file # NoFile
    /\ Set(w, [Idle EXCEPT !.tool = TRUE, !.at = "open", !.doc = file.doc])
    /\ UNCHANGED <<file, temp, backups, edits, deaths, accepted, refused, byHand, overwritten,
                   overlapped>>

\* A form changes the document in memory and saves it; nothing compares it with the file.
SaveForm(w) ==
    /\ writer[w].at = "open" /\ edits < MaxEdits /\ edits' = edits + 1
    /\ Set(w, [writer[w] EXCEPT !.at = "clear", !.edit = edits',
                                !.doc = writer[w].doc \cup {edits'}])
    /\ Enters(w)
    /\ UNCHANGED <<file, temp, backups, deaths, accepted, refused, byHand, overwritten>>

Close(w) ==
    /\ writer[w].at = "open" /\ Set(w, Idle)
    /\ UNCHANGED <<file, temp, backups, edits, deaths, accepted, refused, byHand, overwritten,
                   overlapped>>

-----------------------------------------------------------------------------
(* EditableConfig.save, and _create_file where there is no file yet: the whole goes *)
(* through one name beside the file.                                        *)

\* A stale temporary file is removed; it may be another's.
Clear(w) ==
    /\ writer[w].at = "clear" /\ temp' = NoFile /\ At(w, "create")
    /\ UNCHANGED <<file, backups, edits, deaths, accepted, refused, byHand, overwritten,
                   overlapped>>

Create(w) ==
    /\ writer[w].at = "create"
    /\ \/ temp = NoFile /\ At(w, "dump")
          /\ temp' = [doc |-> writer[w].doc, by |-> w, whole |-> FALSE]
       \/ temp # NoFile /\ At(w, "unlink") /\ UNCHANGED temp
    /\ UNCHANGED <<file, backups, edits, deaths, accepted, refused, byHand, overwritten,
                   overlapped>>

\* What w has open is written to the end, whatever it is called by now.
Dump(w) ==
    LET Written(f) == IF f # NoFile /\ f.by = w THEN [f EXCEPT !.whole = TRUE] ELSE f
    IN /\ writer[w].at = "dump"
       /\ temp' = Written(temp) /\ file' = Written(file)
       /\ At(w, IF writer[w].fresh THEN "replace" ELSE "validate")
       /\ UNCHANGED <<backups, edits, deaths, accepted, refused, byHand, overwritten,
                      overlapped>>

\* What is called config.yaml.tmp by now must have no error that config.yaml has not; a
\* part of a document may have one, or none.
NoNewError == temp # NoFile /\ Errors(temp.doc) \subseteq Errors(Document)

Validate(w) ==
    /\ writer[w].at = "validate"
    /\ \/ NoNewError /\ At(w, "backup")
       \/ (NoNewError => ~temp.whole) /\ At(w, "unlink")
    /\ UNCHANGED <<file, temp, backups, edits, deaths, accepted, refused, byHand, overwritten,
                   overlapped>>

\* The current file is copied, or cannot be.
BackUp(w) ==
    /\ writer[w].at = "backup"
    /\ \/ file # NoFile /\ backups' = backups \cup {file.doc} /\ At(w, "replace")
       \/ UNCHANGED backups /\ At(w, "unlink")
    /\ UNCHANGED <<file, temp, edits, deaths, accepted, refused, byHand, overwritten,
                   overlapped>>

\* os.replace: whatever has the temporary name becomes the file.
Replace(w) ==
    /\ writer[w].at = "replace"
    /\ \/ /\ temp # NoFile /\ file' = temp /\ temp' = NoFile
          /\ Set(w, [writer[w] EXCEPT !.at = "unlink", !.done = TRUE])
          /\ overwritten' = overwritten \cup (IF writer[w].tool THEN Document \ temp.doc ELSE {})
       \/ /\ temp = NoFile /\ At(w, "unlink") /\ UNCHANGED <<file, temp, overwritten>>
    /\ UNCHANGED <<backups, edits, deaths, accepted, refused, byHand, overlapped>>

\* The end, good or bad: the temporary name goes, whoever has it, and the operator hears.
Unlink(w) ==
    /\ writer[w].at = "unlink" /\ temp' = NoFile
    /\ \/ writer[w].done /\ accepted' = accepted \cup {writer[w].edit} /\ UNCHANGED refused
          /\ Set(w, AtRest(w))
       \/ ~writer[w].done /\ Refuse(w) /\ UNCHANGED accepted
    /\ UNCHANGED <<file, backups, edits, deaths, byHand, overwritten, overlapped>>

-----------------------------------------------------------------------------
\* A writer dies, or the tool ends on an error its form does not expect: what it had
\* half-written stays where it is.
Die(w) ==
    /\ writer[w] # Idle /\ deaths < MaxDeaths /\ deaths' = deaths + 1 /\ Set(w, Idle)
    /\ UNCHANGED <<file, temp, backups, edits, accepted, refused, byHand, overwritten,
                   overlapped>>

\* The operator's editor saves the file with a change, good or bad.
EditByHand ==
    /\ file # NoFile /\ edits < MaxEdits /\ edits' = edits + 1
    /\ file' = [file EXCEPT !.doc = @ \cup {edits'}, !.by = NoFile]
    /\ byHand' = byHand \cup {edits'}
    /\ overlapped' = (overlapped \/ \E v \in Writers : writer[v].at \in SaveSteps)
    /\ UNCHANGED <<temp, backups, writer, deaths, accepted, refused, overwritten>>

Next ==
    \/ \E w \in Writers :
          \/ Plan(w) \/ Recheck(w) \/ Open(w) \/ SaveForm(w) \/ Close(w)
          \/ Clear(w) \/ Create(w) \/ Dump(w) \/ Validate(w) \/ BackUp(w) \/ Replace(w)
          \/ Unlink(w) \/ Die(w)
    \/ EditByHand

Spec == Init /\ [][Next]_editVars

-----------------------------------------------------------------------------
\* An edit that was reported as saved, or made by hand, stays in the file whatever other
\* commands do, or is in a backup when the config tool saved an older document over it; one
\* that was reported as refused never gets there; and no command and no form brings in an
\* error or leaves the file half-written, wherever one dies.  Two of them at the file at
\* once are another matter: they share the temporary name.
NoEditLost ==
    ~overlapped =>
        /\ accepted \cup byHand \subseteq Document \cup overwritten
        /\ \A e \in overwritten \ Document : \E b \in backups : e \in b
        /\ refused \cap (Document \cup UNION backups) = {}
        /\ Errors(Document) \subseteq byHand
        /\ file # NoFile => file.whole
=============================================================================
