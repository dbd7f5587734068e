---------------------------- MODULE ProfileStore ----------------------------
(***************************************************************************)
(* The benchmark profile of one operation: a small text file in the        *)
(* current directory that a benchmark program writes when it has found the *)
(* best batch and kernel settings, and that a later program loads, applies *)
(* and runs with.  Every program is a process of its own that does one     *)
(* thing and exits; two of them may run at the same time, and one may be   *)
(* killed at any point.  stdio keeps the whole text in its buffer until    *)
(* the file is closed, so fopen empties the file and fclose fills it; a    *)
(* full disk or an I/O error may cut the text short.                       *)
(*                                                                         *)
(* Abstracted: a number is the sequence of its digits, the word            *)
(* PQCUDA_PROFILE_V1 is one symbol, and all white space is one symbol.     *)
(***************************************************************************)
EXTENDS Integers, Sequences

CONSTANTS
  Writers,   \* benchmark programs that may run at the same time
  Readers,   \* programs that run with the stored profile
  Batches,   \* the digits of the batches from 1 to the maximum
  Values,    \* the digits of the settings the library accepts
  Maximum,   \* the largest of Batches
  Digits,
  Profiles,  \* what benchmarks may recommend
  Foreign,   \* what a program built for another GPU may have left
  Count,     \* the digits of the number of settings
  Settings,  \* the number of settings
  MayCut,    \* whether a write may be cut short
  None, Mixed

Symbols == Digits \cup {"V1", "ws"}
Numbers == Seq(Digits) \ {<< >>}

Stored == [batch : Batches, values : [1 .. Settings -> Values]]

ASSUME ProfilesAssumption ==
  /\ Settings \in Nat \ {0}
  /\ Batches \cup Values \cup {Count} \subseteq Numbers
  /\ Maximum \in Batches
  /\ Profiles \subseteq Stored
  /\ Foreign \subseteq [batch : Numbers, values : [1 .. Settings -> Numbers]]
  /\ {"V1", "ws"} \cap Digits = {}
  /\ None \notin Seq(Symbols) \cup Stored /\ Mixed \notin Stored /\ None # Mixed

VARIABLES
  file,         \* the content of the profile, None if there is no file
  writing,      \* per writer: the profile it saves, None if it has no file open
  loaded,       \* per reader: the profile it loaded, None before and if refused
  executed,     \* per reader: the profile it ran its last operation with
  proposed,     \* history: the profiles benchmarks recommended
  saved,        \* history: the last one reported as saved, None if a benchmark
                \* opened the file since, Mixed if another did not end first
  spliced,      \* history: whether the file is a text that was cut short over
                \* the text of another benchmark that had it open as well
  misled        \* history: the readers whose last program read a spliced file

storeVars == <<writing, proposed, saved, spliced>>
readerVars == <<loaded, executed, misled>>
profileVars == <<file, storeVars, readerVars>>

ProfileTypeOK ==
  /\ file \in Seq(Symbols) \cup {None}
  /\ writing \in [Writers -> Profiles \cup {None}]
  /\ loaded \in [Readers -> Stored \cup {None}]
  /\ executed \in [Readers -> Stored \cup {None}]
  /\ proposed \subseteq Profiles \cup Foreign
  /\ saved \in Profiles \cup {None, Mixed}
  /\ spliced \in BOOLEAN
  /\ misled \subseteq Readers

-----------------------------------------------------------------------------
(***************************************************************************)
(* Text and profile.                                                       *)
(***************************************************************************)
Written(p) == <<<<"V1">>, p.batch, Count>> \o p.values

\* White space ends every word.
ProfileText(p) ==
  LET text[i \in 0 .. 3 + Settings] ==
        IF i = 0 THEN << >> ELSE text[i - 1] \o Written(p)[i] \o <<"ws">>
  IN  text[3 + Settings]

\* The words of a text, split at white space: those that have ended, and the
\* one that is being read.
Reads(acc, c) ==
  IF c # "ws" THEN [acc EXCEPT !.word = Append(@, c)]
  ELSE IF acc.word = << >> THEN acc
  ELSE [words |-> Append(acc.words, acc.word), word |-> << >>]
AllWords(acc) == IF acc.word = << >> THEN acc.words ELSE Append(acc.words, acc.word)

Words(text) ==
  LET read[n \in 0 .. Len(text)] ==
        IF n = 0 THEN [words |-> << >>, word |-> << >>] ELSE Reads(read[n - 1], text[n])
  IN  AllWords(read[Len(text)])

\* Mutation of InRange: the maximum itself is refused.
InRangeBelow(b) == b \in Batches \ {Maximum}
InRange(b) == b \in Batches

\* All words are there and nothing is behind them: n is their number.
\* Mutation: a missing setting is not noticed.
CompleteAtLeast(n) == n \in 3 .. 3 + Settings
Complete(n) == n = 3 + Settings

\* The range check of apply_launch_profile.
Accepted(v) == v \in Values

\* A setting that was not read is the 0 of the initialiser.
Setting(words, i) == IF i + 3 \in DOMAIN words THEN words[i + 3] ELSE <<"0">>

\* pqcuda_profile_load and the range check of apply_launch_profile behind it;
\* None if either refuses.
Load(text) ==
  IF text \in {None, << >>} THEN None
  ELSE LET w == Words(text)
           p == [batch |-> w[2], values |-> [i \in 1 .. Settings |-> Setting(w, i)]]
       IN  IF /\ w[1] = <<"V1">> /\ Complete(Len(w))
              /\ InRange(w[2]) /\ w[3] = Count
              /\ \A i \in 1 .. Settings : Accepted(p.values[i])
             THEN p ELSE None

-----------------------------------------------------------------------------
ProfileInit ==
  /\ \/ file = None /\ proposed = {}
     \/ \E p \in Foreign : file = ProfileText(p) /\ proposed = {p}
  /\ writing = [w \in Writers |-> None]
  /\ loaded = [r \in Readers |-> None]
  /\ executed = [r \in Readers |-> None]
  /\ saved = None
  /\ spliced = FALSE
  /\ misled = {}

(***************************************************************************)
(* A benchmark program.                                                    *)
(***************************************************************************)
\* It has a recommendation, and opens the file with "w": it is empty now.
Open(w) ==
  /\ writing[w] = None
  /\ \E p \in Profiles :
       /\ writing' = [writing EXCEPT ![w] = p]
       /\ proposed' = proposed \cup {p}
  /\ file' = << >>
  /\ saved' = IF writing = [v \in Writers |-> None] THEN None ELSE Mixed
  /\ spliced' = FALSE
  /\ UNCHANGED readerVars

\* What is in the file when text is written to its beginning.
Overwrite(text) == text \o SubSeq(file, Len(text) + 1, Len(file))

\* fclose writes the text; the program reports success and exits.
Close(w) ==
  /\ writing[w] # None
  /\ file' = Overwrite(ProfileText(writing[w]))
  /\ saved' = IF saved = Mixed THEN Mixed ELSE writing[w]
  /\ writing' = [writing EXCEPT ![w] = None]
  /\ spliced' = FALSE
  /\ UNCHANGED <<proposed, readerVars>>

\* Only n symbols could be written; the program reports that it failed.
CloseCut(w) ==
  /\ MayCut /\ writing[w] # None
  /\ \E n \in 0 .. Len(ProfileText(writing[w])) - 1 :
       /\ file' = Overwrite(SubSeq(ProfileText(writing[w]), 1, n))
       /\ spliced' = IF n = 0 THEN spliced ELSE n < Len(file)
  /\ writing' = [writing EXCEPT ![w] = None]
  /\ UNCHANGED <<proposed, saved, readerVars>>

\* The program is killed before it closed the file.
Kill(w) ==
  /\ writing[w] # None
  /\ writing' = [writing EXCEPT ![w] = None]
  /\ UNCHANGED <<file, proposed, saved, spliced, readerVars>>

-----------------------------------------------------------------------------
(***************************************************************************)
(* A program that runs with the stored profile.                            *)
(***************************************************************************)
\* A new program reads the file; if the profile is refused, it reports that
\* and exits.
ReadProfile(r) ==
  /\ loaded[r] = None
  /\ loaded' = [loaded EXCEPT ![r] = Load(file)]
  /\ executed' = [executed EXCEPT ![r] = None]
  /\ misled' = IF spliced THEN misled \cup {r} ELSE misled \ {r}
  /\ UNCHANGED <<file, storeVars>>

\* It runs its operation with the batch and the settings, and exits.
Execute(r) ==
  /\ loaded[r] # None
  /\ executed' = [executed EXCEPT ![r] = loaded[r]]
  /\ loaded' = [loaded EXCEPT ![r] = None]
  /\ UNCHANGED <<file, storeVars, misled>>

ProfileNext ==
  \/ \E w \in Writers : Open(w) \/ Close(w) \/ CloseCut(w) \/ Kill(w)
  \/ \E r \in Readers : ReadProfile(r) \/ Execute(r)

ProfileSpec == ProfileInit /\ [][ProfileNext]_profileVars

-----------------------------------------------------------------------------
(***************************************************************************)
(* Properties.                                                             *)
(***************************************************************************)
\* PQHybrid/README.md:204 says that with an invalid profile a program reports
\* an error and does not run with other settings: an operation never runs with
\* settings no benchmark recommended.  Not true: a text that is cut inside its
\* last number has a smaller number, and one that is cut over the text of
\* another benchmark has the rest of that one's settings.
ExecutedWasRecommended ==
  \A r \in Readers : executed[r] \in proposed \cup {None}

\* What is left of it if settings have one digit: unless the program read a
\* text that was cut over the text of another benchmark, it does not run with
\* settings no benchmark recommended, whichever benchmarks were killed, cut
\* short or overtaken before (pqcuda_profile_load, run_selected_operation).
UnsplicedWasRecommended ==
  \A r \in Readers \ misled : executed[r] \in proposed \cup {None}

\* Unless another benchmark had the file open at the same time, a profile that
\* one reported as saved is accepted, unchanged, by every later program, up to
\* the largest batch.
SavedProfileLoads == saved \notin {None, Mixed} => Load(file) = saved
=============================================================================
