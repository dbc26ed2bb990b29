----------------------------- MODULE Extraction -----------------------------
(***************************************************************************)
(* The extraction of an invoice from text and files, from the decoding of  *)
(* the uploads to the request the model receives and the answer to the     *)
(* caller.  A file is                                                      *)
(*   [data |-> "ok", "empty", "too big", "not base64" or "missing",        *)
(*    declared |-> its content type or "none", magic |-> what its first    *)
(*    bytes say, pages |-> how many it has,                                *)
(*    broken |-> the first that does not render, or 0]                     *)
(* and page p of file i is the image <<i, p>>.                             *)
(***************************************************************************)
EXTENDS Providers, SequencesExt

CONSTANTS
    Uploads,        \* the lists of files in use
    Singles,        \* what the older single-file fields hold: no file, or one
    Schemas,        \* the schemas of the tools in use
    MaxFiles,       \* max_files_per_invoice
    MaxPdfPages,    \* the pages of one PDF that are rendered
    MaxImages       \* max_extraction_images

\* A file as it is sent, of any number of pages.
Files == [data : {"ok", "empty", "too big", "not base64", "missing"},
          declared : {"none", "image", "pdf", "other"}, magic : {"none", "image", "pdf"},
          pages : Nat, broken : Nat]

\* The limits of the settings are 1 or more.
ASSUME ExtractionAssumption ==
    /\ Uploads \subseteq Seq(Files)
    /\ \A single \in Singles : single \in Seq(Files) /\ Len(single) <= 1
    /\ MaxFiles \in Nat \ {0} /\ MaxPdfPages \in Nat \ {0} /\ MaxImages \in Nat \ {0}

VARIABLE extraction     \* the call and what became of it

NoCall == [sent |-> FALSE, outcome |-> "none"]
ExtractionInit == extraction = NoCall

ContentType(file) == IF file.declared # "none" THEN file.declared ELSE file.magic

\* The single file goes first; one without data is no file, in the list it is
\* an error.
CollectSpecs(single, files) ==
    (IF \E i \in DOMAIN single : single[i].data = "missing" THEN <<>> ELSE single) \o files

\* All files are decoded, or none is.
Accepted(files) ==
    /\ Len(files) <= MaxFiles
    /\ \A i \in DOMAIN files : files[i].data = "ok"

-----------------------------------------------------------------------------
(* The content of the request                                              *)

Least(S) == CHOOSE n \in S : \A m \in S : n <= m
ImageParts(file, i, budget) ==
    [p \in 1..(IF ContentType(file) = "image" THEN 1
               ELSE Least({file.pages, MaxPdfPages, budget})) |-> <<i, p>>]

\* Why a file cannot be shown to the model, as far as the budget goes: it is no
\* image and no PDF with pages, or one of the pages in question does not render.
Failure(file, budget) ==
    IF ContentType(file) = "image" THEN "none"
    ELSE IF ContentType(file) # "pdf" \/ file.magic # "pdf" \/ file.pages = 0 THEN "refused"
    ELSE IF file.broken \in 1..Least({file.pages, MaxPdfPages, budget}) THEN "failed"
    ELSE "none"

\* Mutant: the budget counts files, not images.
AddFilePerFile(built, i, file) ==
    IF built.budget = 0 \/ built.failure # "none" THEN built
    ELSE IF Failure(file, built.budget) # "none"
    THEN [built EXCEPT !.failure = Failure(file, built.budget)]
    ELSE [built EXCEPT !.images = @ \o ImageParts(file, i, built.budget), !.budget = @ - 1]

AddFile(built, i, file) ==
    IF built.budget = 0 \/ built.failure # "none" THEN built
    ELSE IF Failure(file, built.budget) # "none"
    THEN [built EXCEPT !.failure = Failure(file, built.budget)]
    ELSE LET parts == ImageParts(file, i, built.budget)
         IN  [built EXCEPT !.images = @ \o parts, !.budget = @ - Len(parts)]

Empty == [images |-> <<>>, budget |-> MaxImages, failure |-> "none"]
Built(files) ==
    LET built[n \in 0..Len(files)] == IF n = 0 THEN Empty ELSE AddFile(built[n - 1], n, files[n])
    IN  built[Len(files)]

Text(what) == [type |-> "text", data |-> what]
Content(hasText, files) ==
    (IF hasText THEN <<Text("instruction"), Text("invoice text")>> ELSE <<Text("instruction")>>)
      \o [i \in DOMAIN Built(files).images |->
            [type |-> "image", data |-> Built(files).images[i]]]

-----------------------------------------------------------------------------
(* One call: a refusal (422), no provider (503), a failure (500), or an     *)
(* extracted invoice                                                       *)

Refuse(files, s, outcome) ==
    extraction' = [sent |-> FALSE, files |-> files, settings |-> s, outcome |-> outcome]

Send(files, hasText, s, schema, reply) ==
    LET answered == Endpoint(s) # Unavailable /\ ToolAnswer(s, reply) = "valid"
    IN  extraction' = [sent |-> TRUE, files |-> files, settings |-> s, schema |-> schema,
                       request |-> ToolRequest(s, Content(hasText, files), schema),
                       outcome |-> IF answered THEN "extracted" ELSE "unavailable"]

Extract ==
    \E single \in Singles, list \in Uploads, hasText \in BOOLEAN,
       provider \in ProviderNames, keys \in SUBSET ProviderNames :
        LET files == CollectSpecs(single, list)
            s == [provider |-> provider, keys |-> keys]
            failure == Built(files).failure
            empty == Len(Content(hasText, files)) = 1
        IN  \/ ~Accepted(files) /\ Refuse(files, s, "refused")
            \/ Accepted(files) /\ ~LlmAvailable(s) /\ Refuse(files, s, "unavailable")
            \/ Accepted(files) /\ LlmAvailable(s) /\ failure # "none" /\ Refuse(files, s, failure)
            \/ /\ Accepted(files) /\ LlmAvailable(s) /\ failure = "none" /\ empty
               /\ Refuse(files, s, "refused")
            \/ /\ Accepted(files) /\ LlmAvailable(s) /\ failure = "none" /\ ~empty
               /\ \E schema \in Schemas, reply \in Replies : Send(files, hasText, s, schema, reply)

ExtractionNext == extraction = NoCall /\ Extract
ExtractionSpec == ExtractionInit /\ [][ExtractionNext]_extraction

-----------------------------------------------------------------------------
(* Properties                                                              *)

Sent == extraction.sent

\* What the model sees, after the text, is the beginning of the invoice: the first
\* MaxImages of the first MaxPdfPages pages of every file, in order and with no
\* gap, in the format of its provider (ocr.py:106-183, providers.py:119-193).
SendsFirstImages ==
    Sent =>
        LET files == extraction.files
            pages == FlattenSeq([i \in DOMAIN files |-> ImageParts(files[i], i, MaxPdfPages)])
            content == extraction.request.content
            texts == Cardinality({n \in DOMAIN content : content[n].type = "text"})
        IN  /\ \A n \in 1..texts : content[n].type = "text"
            /\ Len(content) = texts + Least({MaxImages, Len(pages)})
            /\ \A n \in (texts + 1)..Len(content) : content[n].data = pages[n - texts]

\* The settings' test for a usable provider, the place the call goes to and
\* the model a decision's record names are three separate switches over the
\* provider; they agree (config.py:201, providers.py:42, llm_decision.py:120).
ProviderAgrees ==
    /\ extraction # NoCall =>
         LlmAvailable(extraction.settings) = (Endpoint(extraction.settings) # Unavailable)
    /\ Sent => /\ extraction.request.model = RecordedModel(extraction.settings)
               /\ Endpoint(extraction.settings).key = extraction.settings.provider
=============================================================================
