---------------------------- MODULE MCDocumentReview ----------------------------
(***************************************************************************)
(* DocumentReview for TLC.  Model answers differ from a flawless record in *)
(* at most one field.  The mock extractor meets texts with and without a   *)
(* value of each kind, and both providers meet files that cannot be parsed.*)
(***************************************************************************)
EXTENDS DocumentReview

Flawless(type) ==
  [record_type |-> type, vendor_name |-> "text", document_id |-> "text",
   currency |-> "text", total_amount |-> 1, summary |-> "text", line_items |-> {1},
   source_evidence |-> {"vendor_name", "document_id", "total_amount"},
   confidence |-> 90, needs_review |-> FALSE]

MCAnswers ==
  LET r == Flawless("invoice")
  IN  {Flawless(t) : t \in {"invoice", "contract", "email"}}
        \cup {[Flawless("contract") EXCEPT !.vendor_name = Blank],
              [Flawless("email") EXCEPT !.summary = Blank]}
        \cup {[r EXCEPT !.currency = None], [r EXCEPT !.total_amount = None],
              [r EXCEPT !.total_amount = -1], [r EXCEPT !.line_items = {None, -1, 1}],
              [r EXCEPT !.source_evidence = {"vendor_name", "document_id"}],
              [r EXCEPT !.needs_review = TRUE]}
        \cup {[r EXCEPT !.confidence = c] : c \in {60, 75}}

MCAmounts == {-1, 1}

\* The claims of a job, in some order.
MCJobAttempts ==
  CHOOSE f \in [Executions -> {1, 2}] : {f[e] : e \in Executions} = {1, 2}

Plain ==
  [parsing |-> "text", file_type |-> "txt", words |-> {}, document_id |-> None,
   vendor_name |-> None, currency |-> None, total_amount |-> None,
   dates_valid |-> TRUE, long |-> TRUE]

\* Only an invoice needs a currency.
MCTexts ==
  {[Plain EXCEPT !.words = t[1], !.currency = t[2], !.document_id = d, !.vendor_name = v,
                 !.total_amount = a, !.long = l] :
     t \in {<<{"invoice"}, "text">>, <<{"invoice"}, None>>,
            <<{"contract", "subject"}, None>>},
     d \in {None, "text"}, v \in {None, Blank, "text"}, a \in {None, 1}, l \in BOOLEAN}

MCDocuments ==
  MCTexts
    \cup {[Plain EXCEPT !.file_type = t] : t \in {"eml", "csv", "txt"}}
    \cup {[Plain EXCEPT !.dates_valid = FALSE]}
    \cup {[Plain EXCEPT !.parsing = x] : x \in {"ParserError", "ValueError"}}

\* What the language model is given does not show in its answers.
MCSetups ==
  [provider : {"mock"}, threshold : {50, 80}, document : MCTexts]
    \cup [provider : {"mock"}, threshold : {50}, document : MCDocuments]
    \cup [provider : {"openai"}, threshold : {80},
          document : {d \in MCDocuments : d.parsing # "text"} \cup {Plain}]

===============================================================================
