------------------------------ MODULE Programs ------------------------------
(***************************************************************************)
(* What the programs of src/src/tasks take and give back between the start *)
(* of main (or run_slave) and its end: the tables of the library, which    *)
(* are global (stopwords, SENNA's tokenizers, the stemmer, the normalizer, *)
(* the textcat handle), the files they write, the documents and the DNMs   *)
(* of whole documents.  A program is the sequence of the calls its main    *)
(* makes and, for every file of the walk, the sequence of the calls its    *)
(* handler makes; the library functions that only make other calls are     *)
(* sequences as well.  What is done with the words is in Features,         *)
(* CorpusTasks and MarkedText.                                             *)
(***************************************************************************)
EXTENDS Integers, Sequences, FiniteSets, SequencesExt

CONSTANTS
    Files,       \* the files of the directory, or those a slave is sent
    NoFile,      \* not a file
    Collections  \* the kinds the files may have, a function for each case

\* "english", "foreign": a document with paragraphs; "short": one whose only
\* paragraph has less than two characters; "empty": no paragraph; "rootless": no
\* root element; "unparsable": read_document returns NULL; "gone": no such file
Kinds == {"english", "foreign", "short", "empty", "rootless", "unparsable", "gone"}

ASSUME ProgramsAssumption ==
    /\ Collections \subseteq [Files -> Kinds]
    /\ NoFile \notin Files

Tables    == {"stopwords", "tokenizer", "stemmer", "normalizer", "textcat"}
Streams   == {"output", "second", "results"}
Resources == Tables \cup Streams

-----------------------------------------------------------------------------
(* The calls, and the functions that are sequences of calls. *)

Call(op, on) == [op |-> op, on |-> on]

Open(r)       == Call("open", {r})         \* cannot fail, or is not checked and does not
OpenOrExit(r) == Call("openorexit", {r})   \* checked: exit(1) on NULL
TryOpen(r)    == Call("tryopen", {r})      \* the NULL is kept
Close(r)      == Call("close", {r})
CloseIfOpen(r) == Call("closeifopen", {r})
Write(S)      == Call("write", S)          \* to one of them, or to none
Words(S)      == Call("words", S)          \* with_words_at_xpath
Tokens(S)     == Call("tokens", S)         \* the same in a process_file of its own
Do(op)        == Call(op, {})

\* Mutant: stopwords are left to the caller
initialize_tokenizer_OnlySenna == <<Open("tokenizer")>>

initialize_tokenizer == <<Open("stopwords"), Open("tokenizer")>>
free_tokenizer       == <<Close("stopwords"), Close("tokenizer")>>

\* Mutant: the handle is not checked
init_document_loader_Unchecked ==
    <<TryOpen("textcat"), Open("stemmer")>> \o initialize_tokenizer \o <<Open("normalizer")>>

init_document_loader ==
    <<OpenOrExit("textcat"), Open("stemmer")>> \o initialize_tokenizer \o <<Open("normalizer")>>

close_document_loader ==
    <<Close("textcat")>> \o free_tokenizer \o <<Close("stemmer"), Close("normalizer")>>

process_documents_in_directory == init_document_loader \o <<Do("walk")>> \o close_document_loader

\* The word loops of the tasks ask for all of them, those of train_DD do not normalize
Plain   == {"stopwords", "tokenizer"}
Stemmed == Plain \cup {"stemmer"}
All     == Stemmed \cup {"normalizer"}


\* LOADER_CHECK_LANGUAGE; LOADER_NORMALIZE_UNICODE keeps and frees nothing
read_doc_and_call_function(check, function) ==
    <<Do("read")>>
        \o (IF check THEN <<Do("dnm"), Do("classify"), Do("dismiss"), Do("freednm")>> ELSE <<>>)
        \o function \o <<Do("freedoc"), Do("return")>>

\* process_file of the tasks that walk by themselves, around what they do
process_file(work) ==
    <<Do("read"), Do("returnifnull"), Do("giveup")>> \o work \o <<Do("freedoc"), Do("return")>>

llamapun_get_ngrams ==
    <<Open("stemmer"), Open("stopwords"), Words({"stemmer", "stopwords"}),
      Close("stemmer"), Close("stopwords")>>

\* The n-grams of extract_ngrams and compute_ngram_idf are written to three files
Save == <<TryOpen("results"), Write({"results"}), Close("results")>>

-----------------------------------------------------------------------------
(* The calls of each main (or run_slave), and of its handler for a file.   *)

walk == <<Do("walk")>>

gen_IDF_main ==
    initialize_tokenizer \o <<Open("stemmer"), Open("normalizer")>> \o walk
        \o <<Close("normalizer"), Close("stemmer")>> \o free_tokenizer

\* No normalizer, here and in gen_libsvm_input
gen_TF_IDF_main ==
    initialize_tokenizer \o <<Open("stemmer")>> \o walk \o <<Close("stemmer")>> \o free_tokenizer

train_DD_main == gen_TF_IDF_main

gen_libsvm_input_main ==
    <<Do("table")>> \o initialize_tokenizer \o <<Open("stemmer"), TryOpen("output")>>
        \o walk \o <<Close("output"), Close("stemmer")>> \o free_tokenizer

gen_libsvm_input_2_main == <<Do("table"), TryOpen("output")>> \o process_documents_in_directory

gen_rnnlm_input_main ==
    initialize_tokenizer
        \o <<Open("stemmer"), Open("normalizer"), Do("table"), TryOpen("output"), TryOpen("second")>>
        \o walk
        \o <<Close("output"), Close("second"), Close("stemmer"), Close("normalizer")>> \o free_tokenizer

ngram_main ==
    <<TryOpen("output"), TryOpen("second"), Open("stopwords")>>
        \o process_documents_in_directory \o <<Close("stopwords")>>
        \o Save \o Save \o Save \o <<Close("output"), Close("second")>>

\* map.txt is written at the end, if it could be opened
simplify_documents_main ==
    init_document_loader \o walk \o close_document_loader
        \o <<TryOpen("second"), CloseIfOpen("second")>>

evaluate_tokenization_main ==
    <<Do("argument"), Do("read")>> \o init_document_loader
        \o <<Words(All), Do("freedoc")>> \o close_document_loader

language_detector_main == <<OpenOrExit("textcat")>> \o walk \o <<Close("textcat")>>

parallel_language_detector_slave == <<TryOpen("textcat")>> \o walk \o <<Close("textcat")>>

run_slave == <<OpenOrExit("output"), Do("table")>> \o process_documents_in_directory \o <<Close("output")>>

\* process_file of gen_IDF and gen_TF_IDF
counting_file == process_file(<<Tokens(All)>>)

train_DD_file == process_file(<<Tokens(Stemmed)>>)

gen_libsvm_input_file == process_file(<<Tokens(All), Tokens(Stemmed), Write({"output"})>>)

\* A callback of the loader; that its second pass may follow NULL is in Features
gen_libsvm_input_2_file ==
    read_doc_and_call_function(FALSE,
        <<Do("giveup"), Tokens(All), Tokens(Stemmed), Write({"output"}), Do("freedoc"), Do("return")>>)

gen_rnnlm_input_file == process_file(<<Tokens(All), Write({"output", "second"})>>)

ngramparse == read_doc_and_call_function(FALSE, <<Words(All), Do("complain"), Do("return")>>)

simplify_documents_parse ==
    <<OpenOrExit("output"), Do("read"), Words(All), Write({"output"}), Close("output"),
      Do("freedoc"), Do("return")>>

language_detector_parse ==
    <<Do("read"), Do("returnifnull"), Do("dnm"), Do("classify"), Do("report"),
      Do("freednm"), Do("freedoc"), Do("return")>>

parallel_language_detector_file ==
    <<Do("read"), Do("dnm"), Do("classify"), Do("report"),
      Do("freednm"), Do("freedoc"), Do("return")>>

slave_file(pre) ==
    <<Do("read"), Words(pre), Words(All), Write({"output"}), Do("freedoc"), Do("return")>>

\* Not in the repository: programs that use the library as its functions allow
client_ngrams_file ==
    <<Do("read"), Do("returnifnull")>> \o llamapun_get_ngrams \o <<Do("freedoc"), Do("return")>>

client_language_file == read_doc_and_call_function(TRUE, <<Words(All), Do("return")>>)

Programs ==
    {"gen_IDF", "gen_TF_IDF", "train_DD", "gen_libsvm_input", "gen_libsvm_input_2",
     "gen_rnnlm_input", "extract_ngrams", "compute_ngram_idf", "simplify_documents",
     "evaluate_tokenization", "language_detector", "parallel_language_detector",
     "parallel_libsvm_input", "parallel_libsvm_input_occurence",
     "parallel_libsvm_ngrams_extended", "client_ngrams", "client_language"}

Main(p) ==
    CASE p = "gen_IDF"            -> gen_IDF_main
      [] p = "gen_TF_IDF"         -> gen_TF_IDF_main
      [] p = "train_DD"           -> train_DD_main
      [] p = "gen_libsvm_input"   -> gen_libsvm_input_main
      [] p = "gen_libsvm_input_2" -> gen_libsvm_input_2_main
      [] p = "gen_rnnlm_input"    -> gen_rnnlm_input_main
      [] p \in {"extract_ngrams", "compute_ngram_idf"} -> ngram_main
      [] p = "simplify_documents" -> simplify_documents_main
      [] p = "client_language"    -> process_documents_in_directory
      [] p = "evaluate_tokenization" -> evaluate_tokenization_main
      [] p = "language_detector"     -> language_detector_main
      [] p = "parallel_language_detector" -> parallel_language_detector_slave
      [] p = "client_ngrams" -> walk
      [] OTHER -> run_slave

File(p) ==
    CASE p \in {"gen_IDF", "gen_TF_IDF"} -> counting_file
      [] p = "train_DD"           -> train_DD_file
      [] p = "gen_libsvm_input"   -> gen_libsvm_input_file
      [] p = "gen_libsvm_input_2" -> gen_libsvm_input_2_file
      [] p = "gen_rnnlm_input"    -> gen_rnnlm_input_file
      [] p \in {"extract_ngrams", "compute_ngram_idf"} -> ngramparse
      [] p = "simplify_documents" -> simplify_documents_parse
      [] p = "language_detector"  -> language_detector_parse
      [] p = "parallel_language_detector" -> parallel_language_detector_file
      [] p \in {"parallel_libsvm_input", "parallel_libsvm_input_occurence"} -> slave_file(All)
      [] p = "parallel_libsvm_ngrams_extended" -> slave_file(Plain)
      [] p = "client_ngrams"   -> client_ngrams_file
      [] p = "client_language" -> client_language_file
      [] OTHER -> <<>>

\* What may be missing on the machine a program runs on
Fallible(p) ==
    UNION {IF c.op = "table" THEN {"table"} ELSE c.on :
              c \in {d \in ToSet(Main(p) \o File(p)) : d.op \in {"openorexit", "tryopen", "table"}}}

-----------------------------------------------------------------------------

VARIABLES
    prog, kind, failed,  \* the program, its files, what cannot be opened: constant
    main,     \* the calls main has still to make
    todo,     \* the calls the handler has still to make for the file
    toVisit,  \* files the walk has not come to
    cur,      \* the file of the handler, or NoFile
    res,      \* "none", "live", "null" (a failed open) or "freed", of every resource
    doc,      \* the same of the document of every file
    dnm,      \* files with a DNM of the whole document
    worked,   \* for every file, how often its words (or its language) were gone
              \* through, and which tables asked for were not there
    outcome   \* "running", "returned", "exit", "crashed" or "undefined"

given    == <<prog, kind, failed>>
progress == <<main, todo, toVisit, cur>>
vars     == <<given, progress, res, doc, dnm, worked, outcome>>

Init ==
    /\ prog \in Programs
    /\ kind \in Collections
    /\ failed \in SUBSET Fallible(prog)
    /\ main = Main(prog) /\ todo = <<>> /\ cur = NoFile
    /\ toVisit = Files
    /\ res = [r \in Resources |-> "none"]
    /\ doc = [f \in Files |-> "none"]
    /\ dnm = {}
    /\ worked = [f \in Files |-> [passes |-> 0, missing |-> {}]]
    /\ outcome = "running"

NextCall == Head(todo \o main)

\* The call that is made next
At(op) == outcome = "running" /\ todo \o main # <<>> /\ NextCall.op = op
On(r)  == NextCall.on = {r}

Proceed ==
    /\ IF todo # <<>> THEN todo' = Tail(todo) /\ UNCHANGED main
                      ELSE main' = Tail(main) /\ UNCHANGED todo
    /\ UNCHANGED <<toVisit, cur>>

End(how) == outcome' = how /\ UNCHANGED <<progress, res, doc, dnm, worked>>

\* The function returns: its caller goes on behind it
Leave ==
    /\ todo' = SubSeq(todo, 1 + SelectInSeq(todo, LAMBDA c : c.op = "return"), Len(todo))
    /\ UNCHANGED <<main, toVisit, cur>>

HasParagraphs(f) == doc[f] = "live" /\ kind[f] \in {"english", "foreign", "short"}

-----------------------------------------------------------------------------
(* The library's tables, and streams. *)

\* read_verbstem reads its list "just once": a stemmer that was closed stays closed.
\* load_stopwords adds to the table that is there
OpenAlways(r) ==
    /\ At("open") /\ On(r)
    /\ res' = [res EXCEPT ![r] = IF r = "stemmer" /\ @ = "freed" THEN "freed" ELSE "live"]
    /\ Proceed
    /\ UNCHANGED <<doc, dnm, worked, outcome>>

OpenChecked(r) ==
    /\ At("openorexit") /\ On(r)
    /\ IF r \in failed THEN End("exit")
       ELSE /\ res' = [res EXCEPT ![r] = "live"]
            /\ Proceed
            /\ UNCHANGED <<doc, dnm, worked, outcome>>

OpenUnchecked(r) ==
    /\ At("tryopen") /\ On(r)
    /\ res' = [res EXCEPT ![r] = IF r \in failed THEN "null" ELSE "live"]
    /\ Proceed
    /\ UNCHANGED <<doc, dnm, worked, outcome>>

\* idf.json, corpus_frequencies.json, the lists of n-grams: nobody looks whether they
\* could be read
LoadTable ==
    /\ At("table")
    /\ IF "table" \in failed THEN End("crashed")
       ELSE Proceed /\ UNCHANGED <<res, doc, dnm, worked, outcome>>

\* free_stopwords leaves an empty table; pcre_free takes NULL; others are freed for good
CloseResource(r) ==
    /\ At("close") /\ On(r)
    /\ CASE r = "stopwords" \/ res[r] = "live" \/ (r = "normalizer" /\ res[r] = "none") ->
               /\ res' = [res EXCEPT ![r] = IF @ = "live" /\ r # "stopwords" THEN "freed" ELSE "none"]
               /\ Proceed
               /\ UNCHANGED <<doc, dnm, worked, outcome>>
         [] r # "stopwords" /\ res[r] = "null" -> End("crashed")
         [] OTHER -> End("undefined")

CloseIfLive(r) ==
    /\ At("closeifopen") /\ On(r)
    /\ res' = [res EXCEPT ![r] = IF @ = "live" THEN "freed" ELSE @]
    /\ Proceed
    /\ UNCHANGED <<doc, dnm, worked, outcome>>

\* What a document or a table gives to write, if anything
WriteTo ==
    /\ At("write")
    /\ \/ Proceed /\ UNCHANGED <<res, doc, dnm, worked, outcome>>
       \/ /\ \E r \in NextCall.on : res[r] = "null"
          /\ cur # NoFile => HasParagraphs(cur)
          /\ End("crashed")

-----------------------------------------------------------------------------
(* The walk and its documents. *)

\* Mutant: a file is not struck off
Visit_Again(f) ==
    /\ At("walk") /\ f \in toVisit
    /\ cur' = f
    /\ todo' = File(prog)
    /\ UNCHANGED <<main, toVisit, res, doc, dnm, worked, outcome>>

Visit(f) ==
    /\ At("walk") /\ f \in toVisit
    /\ toVisit' = toVisit \ {f}
    /\ cur' = f
    /\ todo' = File(prog)
    /\ UNCHANGED <<main, res, doc, dnm, worked, outcome>>

EndOfWalk ==
    /\ At("walk") /\ toVisit = {}
    /\ cur' = NoFile
    /\ main' = Tail(main)
    /\ UNCHANGED <<todo, toVisit, res, doc, dnm, worked, outcome>>

\* The only file is that on the command line
Argument(f) ==
    /\ At("argument")
    /\ cur' = f /\ toVisit' = {}
    /\ main' = Tail(main)
    /\ UNCHANGED <<todo, res, doc, dnm, worked, outcome>>

Read ==
    /\ At("read")
    /\ IF kind[cur] = "gone" THEN End("crashed")
       ELSE /\ doc' = [doc EXCEPT ![cur] = IF kind[cur] = "unparsable" THEN "null" ELSE "live"]
            /\ Proceed
            /\ UNCHANGED <<res, dnm, worked, outcome>>

ReturnIfNull ==
    /\ At("returnifnull")
    /\ IF doc[cur] = "null" THEN Leave ELSE Proceed
    /\ UNCHANGED <<res, doc, dnm, worked, outcome>>

FreeDocument ==
    /\ At("freedoc")
    /\ IF doc[cur] = "freed" THEN End("undefined")
       ELSE /\ doc' = [doc EXCEPT ![cur] = IF @ = "live" THEN "freed" ELSE @]
            /\ Proceed
            /\ UNCHANGED <<res, dnm, worked, outcome>>

\* Mutant: the early return forgets the document
GiveUp_Leak ==
    /\ At("giveup")
    /\ IF HasParagraphs(cur) THEN Proceed ELSE Leave
    /\ UNCHANGED <<res, doc, dnm, worked, outcome>>

\* Mutant: the early return has a value, which ends the walk
GiveUp_StopsWalk ==
    /\ At("giveup")
    /\ IF HasParagraphs(cur) THEN Proceed /\ UNCHANGED doc
       ELSE /\ doc' = [doc EXCEPT ![cur] = IF @ = "live" THEN "freed" ELSE @]
            /\ todo' = <<>> /\ toVisit' = {}
            /\ UNCHANGED <<main, cur>>
    /\ UNCHANGED <<res, dnm, worked, outcome>>

\* Neither expression finds a paragraph: the document is freed, the function returns
GiveUp ==
    /\ At("giveup")
    /\ IF HasParagraphs(cur) THEN Proceed /\ UNCHANGED doc
       ELSE /\ doc' = [doc EXCEPT ![cur] = IF @ = "live" THEN "freed" ELSE @]
            /\ Leave
    /\ UNCHANGED <<res, dnm, worked, outcome>>

\* extract_ngrams and compute_ngram_idf write to their log about a document without paragraphs
Complain ==
    /\ At("complain")
    /\ IF ~HasParagraphs(cur) /\ res["output"] = "null" THEN End("crashed")
       ELSE Proceed /\ UNCHANGED <<res, doc, dnm, worked, outcome>>

Return ==
    /\ At("return")
    /\ Proceed
    /\ UNCHANGED <<res, doc, dnm, worked, outcome>>

-----------------------------------------------------------------------------
(* Words and languages. *)

\* Without a regular expression a word is not normalized, without stopwords none is
\* one; what was freed is used all the same
GoThrough(S) ==
    /\ worked' = [worked EXCEPT ![cur] =
                     [passes |-> @.passes + 1, missing |-> @.missing \cup {t \in S : res[t] = "none"}]]
    /\ Proceed
    /\ UNCHANGED <<res, doc, dnm, outcome>>

Unusable(S) == \E t \in S : res[t] = "freed" \/ (t \in {"tokenizer", "stemmer"} /\ res[t] # "live")

\* with_words_at_xpath makes its callback with NULL if there is no paragraph, and
\* leaves out what is too short for the tokenizer
WordsAtXpath ==
    /\ At("words")
    /\ LET read == HasParagraphs(cur) /\ kind[cur] # "short"
       IN  IF doc[cur] = "freed" \/ (read /\ Unusable(NextCall.on)) THEN End("undefined")
           ELSE IF read THEN GoThrough(NextCall.on)
           ELSE Proceed /\ UNCHANGED <<res, doc, dnm, worked, outcome>>

\* The loops of process_file have every paragraph tokenized; of a text of less than two
\* characters tokenize_sentences reads what nobody has written
TokensOf ==
    /\ At("tokens")
    /\ CASE doc[cur] = "freed" \/ Unusable(NextCall.on) -> End("undefined")
         [] OTHER ->
               IF kind[cur] = "short"
               THEN End("undefined") \/ (Proceed /\ UNCHANGED <<res, doc, dnm, worked, outcome>>)
               ELSE GoThrough(NextCall.on)

\* create_DNM of the root element returns NULL if there is none
CreateDnm ==
    /\ At("dnm")
    /\ IF doc[cur] = "null" \/ kind[cur] = "rootless" THEN End("exit")
       ELSE /\ dnm' = dnm \cup {cur}
            /\ Proceed
            /\ UNCHANGED <<res, doc, worked, outcome>>

\* The slaves of parallel_language_detector call textcat_Classify without the look
\* text_is_english takes at the handle
Classify ==
    /\ At("classify")
    /\ CASE res["textcat"] = "live" -> Proceed /\ UNCHANGED <<res, doc, dnm, worked, outcome>>
         [] res["textcat"] = "null" -> End("crashed")
         [] OTHER -> End("undefined")

\* "appears not to be in English": the document is freed, its DNM is not
Dismiss ==
    /\ At("dismiss")
    /\ IF kind[cur] = "english" THEN Proceed /\ UNCHANGED doc
       ELSE /\ doc' = [doc EXCEPT ![cur] = "freed"]
            /\ todo' = <<>>
            /\ UNCHANGED <<main, toVisit, cur>>
    /\ UNCHANGED <<res, dnm, worked, outcome>>

\* The line of a detector about the document
Report == At("report") /\ GoThrough({"textcat"})

FreeDnm ==
    /\ At("freednm")
    /\ dnm' = dnm \ {cur}
    /\ Proceed
    /\ UNCHANGED <<res, doc, worked, outcome>>

-----------------------------------------------------------------------------

ReturnFromMain ==
    /\ outcome = "running" /\ todo \o main = <<>>
    /\ End("returned")

Step ==
    \/ \E r \in Resources :
          OpenAlways(r) \/ OpenChecked(r) \/ OpenUnchecked(r) \/ CloseResource(r) \/ CloseIfLive(r)
    \/ LoadTable \/ WriteTo \/ WordsAtXpath \/ TokensOf
    \/ \E f \in Files : Visit(f) \/ Argument(f)
    \/ EndOfWalk \/ Read \/ ReturnIfNull \/ FreeDocument \/ GiveUp \/ Complain \/ Return
    \/ CreateDnm \/ Classify \/ Dismiss \/ Report \/ FreeDnm
    \/ ReturnFromMain

Next == Step /\ UNCHANGED given

Spec == Init /\ [][Next]_vars

-----------------------------------------------------------------------------
(* Properties. *)

Serial    == {"gen_IDF", "gen_TF_IDF", "train_DD", "gen_libsvm_input", "gen_rnnlm_input"}
Detectors == {"language_detector", "parallel_language_detector"}
Slaves    == {"parallel_libsvm_input", "parallel_libsvm_input_occurence",
              "parallel_libsvm_ngrams_extended"}
TwoPasses == Slaves \cup {"gen_libsvm_input", "gen_libsvm_input_2"}
Unchecked == {"gen_libsvm_input", "gen_libsvm_input_2", "gen_rnnlm_input",
              "extract_ngrams", "compute_ngram_idf"}

\* A document is read when the walk comes to its file and not before, and is in memory
\* only while the handler works on it
TypeOK ==
    /\ prog \in Programs /\ kind \in Collections /\ failed \subseteq Fallible(prog)
    /\ IsSuffix(main, Main(prog)) /\ IsSuffix(todo, File(prog))
    /\ toVisit \subseteq Files /\ cur \in (Files \ toVisit) \cup {NoFile}
    /\ todo # <<>> => cur # NoFile
    /\ res \in [Resources -> {"none", "live", "null", "freed"}]
    /\ doc \in [Files -> {"none", "live", "null", "freed"}]
    /\ \A f \in Files : (f \in toVisit => doc[f] = "none") /\ (doc[f] = "live" => f = cur)
    /\ dnm \subseteq Files \ toVisit
    /\ worked \in [Files -> [passes : 0 .. 2, missing : SUBSET Tables]]
    /\ outcome \in {"running", "returned", "exit", "crashed", "undefined"}


\* A program that returns has given back every table, stream and document, also those
\* of files it gave up on; but gen_libsvm_input_2 never closes its output and the DNM
\* of a document dismissed for its language is lost
Released ==
    outcome = "returned" =>
        /\ \A r \in Resources : res[r] = "live" => prog = "gen_libsvm_input_2" /\ r = "output"
        /\ \A f \in Files : doc[f] # "live"
        /\ \A f \in dnm : prog = "client_language" /\ kind[f] # "english"

\* The files whose words, or whose language, a program is for
Due(f) ==
    CASE prog \in Detectors -> kind[f] \in {"english", "foreign", "short", "empty"}
      [] prog = "client_language" -> kind[f] = "english"
      [] prog = "evaluate_tokenization" -> doc[f] # "none" /\ kind[f] \in {"english", "foreign"}
      [] OTHER -> kind[f] \in {"english", "foreign"}

\* Whatever files the walk has met before, a program that returns has gone through every
\* document with paragraphs as often as it is meant to, with every table its words need;
\* only gen_TF_IDF and gen_libsvm_input normalize words without having compiled the
\* expression, and leave them as they are
WalkComplete ==
    outcome = "returned" => \A f \in Files :
        worked[f] =
            [passes  |-> IF ~Due(f) THEN 0 ELSE IF prog \in TwoPasses THEN 2 ELSE 1,
             missing |-> IF Due(f) /\ prog \in {"gen_TF_IDF", "gen_libsvm_input"}
                         THEN {"normalizer"} ELSE {}]
=============================================================================
