------------------------------- MODULE KeyFiles -------------------------------
(***************************************************************************)
(* The command line programs pass keys, ciphertexts, secrets and           *)
(* signatures to each other in text files: one item per line in            *)
(* hexadecimal.  A program performs one task for a batch of items: it      *)
(* reads its inputs, computes and writes its outputs, each over the file   *)
(* of the previous run.  It may fail or be killed anywhere; then the file  *)
(* it writes is cut short and the ones behind it are those of before.      *)
(*                                                                         *)
(* Abstracted: the digits of an item are its positions.  The user runs one *)
(* program at a time, on the files the programs name, and signs one        *)
(* message.                                                                *)
(***************************************************************************)
EXTENDS Integers, Sequences, Functions

CONSTANTS
  MaxBatch, MaxTasks,  \* bounds on the items and on the programs that are run
  ItemDigits           \* the digits of an item

ASSUME ItemDigitsAssumption == ItemDigits \in Nat \ {0} /\ MaxBatch \in Nat

VARIABLES
  algorithm,  \* "kyber" or "dilithium"
  files,      \* their text, without white space; empty if there is none
  task,       \* of the program that runs, "none" between two programs
  batch_size,
  received,   \* the items of the input files read so far
  produced,   \* the items of each output file, << >> before they are computed
  written,    \* how many of these are written
  tasks,      \* how many programs have been run
  verified,   \* the last answer of a verification
  intact      \* history: files of successful programs, that were made from
              \* files in this set, none of which has been written to since

fileVars == <<algorithm, files, task, batch_size, received, produced, written, tasks,
              verified, intact>>

-----------------------------------------------------------------------------
Tasks == IF algorithm = "kyber" THEN {"keypair", "encaps", "decaps"}
         ELSE {"keypair", "sign", "verify"}

Inputs(t) ==
  CASE t = "keypair" -> << >>
    [] t = "encaps" -> <<"public_key">>
    [] t = "decaps" -> <<"ciphertext", "private_key">>
    [] t = "sign" -> <<"private_key">>
    [] t = "verify" -> <<"public_key", "signature">>

Outputs(t) ==
  CASE t = "keypair" -> <<"public_key", "private_key">>
    [] t = "encaps" -> <<"ciphertext", "shared_key_encap">>
    [] t = "decaps" -> <<"shared_key_decap">>
    [] t = "sign" -> <<"signature">>
    [] t = "verify" -> << >>

FileNames == UNION {Range(Outputs(t)) : t \in Tasks}
\* The file itself and its pair, what is made from them, and what from that.
MadeFrom(name) ==
  CASE name \in {"public_key", "private_key"} -> FileNames
    [] name \in {"ciphertext", "shared_key_encap"} ->
         {"ciphertext", "shared_key_encap", "shared_key_decap"}
    [] OTHER -> {name}

\* An item belongs to a key pair, named by the task that made it and its index
\* there; ciphertexts and secrets also to the encapsulation that made them.
Nobody == <<0, 0>>
Item(what, pair, by) == [what |-> what, pair |-> pair, by |-> by]
Garbage == Item("garbage", Nobody, Nobody)

\* write_hex_batch_file
Digit(items, k) == <<items[(k - 1) \div ItemDigits + 1], ((k - 1) % ItemDigits) + 1>>
Text(items) == [k \in 1 .. Len(items) * ItemDigits |-> Digit(items, k)]

\* read_hex: as many digits as the batch needs, or nothing is read.
\* Mutation: the text may be too short.
AcceptsShort(text, n) == Len(text) \in 1 .. n * ItemDigits
Accepts(text, n) == Len(text) = n * ItemDigits

\* The items of a text: digits of different items give a number nobody made.
Parse(text, n) ==
  [i \in 1 .. n |->
     LET first == (i - 1) * ItemDigits + 1
     IN  IF /\ first + ItemDigits - 1 \in DOMAIN text
            /\ \A j \in 1 .. ItemDigits : text[first + j - 1] = <<text[first][1], j>>
         THEN text[first][1] ELSE Garbage]

\* The batch calls, with buffers of the sizes they ask for.
keypair_batch(n) ==
  <<[i \in 1 .. n |-> Item("pk", <<tasks, i>>, Nobody)], [i \in 1 .. n |-> Item("sk", <<tasks, i>>, Nobody)]>>
encapsulate_batch(pk) ==
  <<[i \in DOMAIN pk |-> Item("ct", pk[i].pair, <<tasks, i>>)],
    [i \in DOMAIN pk |-> Item("ss", pk[i].pair, <<tasks, i>>)]>>
\* A wrong key gives another secret.
decapsulate_batch(ct, sk) ==
  <<[i \in DOMAIN ct |-> IF ct[i].pair = sk[i].pair THEN Item("ss", ct[i].pair, ct[i].by)
                         ELSE Item("rejected", sk[i].pair, ct[i].by)]>>
sign_batch(sk) == <<[i \in DOMAIN sk |-> Item("sig", sk[i].pair, Nobody)]>>
verify_batch(sig, pk) == \A i \in DOMAIN sig : sig[i].pair = pk[i].pair

Results(t, in) ==
  CASE t = "keypair" -> keypair_batch(batch_size)
    [] t = "encaps" -> encapsulate_batch(in[1])
    [] t = "decaps" -> decapsulate_batch(in[1], in[2])
    [] t = "sign" -> sign_batch(in[1])

-----------------------------------------------------------------------------
FilesInit ==
  /\ algorithm \in {"kyber", "dilithium"}
  /\ files = [name \in FileNames |-> << >>]
  /\ task = "none" /\ batch_size = 0 /\ received = << >> /\ produced = << >> /\ written = 0
  /\ tasks = 0 /\ verified = TRUE /\ intact = {}

\* A program exits: its variables are gone.
Exit ==
  /\ task' = "none" /\ batch_size' = 0 /\ received' = << >> /\ produced' = << >> /\ written' = 0

StartTask ==
  /\ task = "none" /\ tasks < MaxTasks
  /\ task' \in Tasks /\ batch_size' \in 1 .. MaxBatch
  /\ tasks' = tasks + 1
  /\ UNCHANGED <<algorithm, files, received, produced, written, verified, intact>>

NextInput == Inputs(task)[Len(received) + 1]
Reading == task # "none" /\ Len(received) < Len(Inputs(task))
HasInputs == task # "none" /\ Len(received) = Len(Inputs(task)) /\ produced = << >>

ReadInput ==
  /\ Reading
  /\ Accepts(files[NextInput], batch_size)
  /\ received' = Append(received, Parse(files[NextInput], batch_size))
  /\ UNCHANGED <<algorithm, files, task, batch_size, produced, written, tasks, verified, intact>>

RefuseInput ==
  /\ Reading
  /\ ~Accepts(files[NextInput], batch_size)
  /\ Exit
  /\ UNCHANGED <<algorithm, files, tasks, verified, intact>>

Compute ==
  /\ HasInputs /\ task # "verify"
  /\ produced' = Results(task, received)
  /\ UNCHANGED <<algorithm, files, task, batch_size, received, written, tasks, verified, intact>>

\* The program prints the answer, "INVALID or failed" also when the call fails,
\* and exits.
VerifyAll ==
  /\ HasInputs /\ task = "verify"
  /\ verified' \in {verify_batch(received[2], received[1]), FALSE}
  /\ Exit
  /\ UNCHANGED <<algorithm, files, tasks, intact>>

\* An allocation or the batch call fails, or the program is killed.
TaskFails ==
  /\ task # "none" /\ produced = << >>
  /\ Exit
  /\ UNCHANGED <<algorithm, files, tasks, verified, intact>>

\* What remains when the file is written again.
Stale(name) == intact \ MadeFrom(name)
Success(name) ==
  IF Range(Inputs(task)) \subseteq intact THEN Stale(name) \cup Range(Outputs(task))
  ELSE Stale(name)

Output == Outputs(task)[written + 1]
LastOutput == written + 1 = Len(Outputs(task))

WriteOutput ==
  /\ produced # << >>
  /\ files' = [files EXCEPT ![Output] = Text(produced[written + 1])]
  /\ intact' = IF LastOutput THEN Success(Output) ELSE Stale(Output)
  /\ IF LastOutput THEN Exit
     ELSE written' = written + 1 /\ UNCHANGED <<task, batch_size, received, produced>>
  /\ UNCHANGED <<algorithm, tasks, verified>>

\* The file cannot be opened, or is cut short, and the program reports that
\* or is killed.
WriteFails ==
  /\ produced # << >>
  /\ LET text == Text(produced[written + 1])
     IN  \E n \in 0 .. Len(text) :
           files' \in {files, [files EXCEPT ![Output] = SubSeq(text, 1, n)]}
  /\ intact' = Stale(Output)
  /\ Exit
  /\ UNCHANGED <<algorithm, tasks, verified>>

FilesNext ==
  \/ StartTask \/ ReadInput \/ RefuseInput \/ Compute \/ VerifyAll \/ TaskFails
  \/ WriteOutput \/ WriteFails

FilesSpec == FilesInit /\ [][FilesNext]_fileVars

-----------------------------------------------------------------------------
\* Programs that reported success after each other hand over what they made:
\* both sides hold the same secrets, and signatures verify.  Whatever failed
\* before, a program never uses an item that is put together from two, and
\* what is not the file of the whole batch is refused.
FilesCarryItems ==
  /\ {"shared_key_encap", "shared_key_decap"} \subseteq intact =>
       files["shared_key_encap"] = files["shared_key_decap"]
  /\ HasInputs /\ task = "verify" /\ {"public_key", "signature"} \subseteq intact =>
       verify_batch(received[2], received[1])
  /\ \A name \in intact : \E n \in 1 .. MaxBatch : Accepts(files[name], n)
  /\ \A k \in DOMAIN received, i \in 1 .. batch_size : received[k][i] # Garbage
=============================================================================
