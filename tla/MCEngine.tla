------------------------------ MODULE MCEngine -----------------------------
\* Instances of Engine for TLC: two hosts with ids 1 and 2, at most two files
\* each, two contents that score just below and just above the thresholds.
EXTENDS Engine

\* A text file and a source file of two nodes each, and a picture.
FileOf(tree, ext, root, kind, text) ==
  [tree |-> tree, ext |-> ext,
   nodes |-> <<[kind |-> root, text |-> "none"], [kind |-> kind, text |-> text]>>,
   edges |-> <<[src |-> 1, dst |-> 2, kind |-> <<"Contains">>]>>]

Files == {FileOf("notes", "md", "Document", "Paragraph", "x"),
          FileOf("code", "rs", "Module", "Function", "y"),
          FileOf("photo", "jpg", "Document", "Paragraph", "x")}

Labels == [tree : {"notes", "code"}, kind : {"Document", "Paragraph", "Module", "Function"},
           text : {"none", "x", "y"}]

Embeddings == [text : {"none", "x", "y"}, dims : Dims]

\* Texts score 100 with themselves and 50 with the other one; what was embedded
\* with different dimensions scores anything.
Scores == [p \in Embeddings \X Embeddings |->
             IF p[1].dims # p[2].dims THEN 70 ELSE IF p[1].text = p[2].text THEN 100 ELSE 50]

\* A kind that hosts may report and that contains the separator of keys.
Odd == <<"Uses", Tilde, "often">>

Keys ==
  {[src |-> <<e, i>>, dst |-> <<e, i + 1>>, kind |-> <<"Contains">>] : e \in Replica, i \in 0..2}
  \cup {SimilarTo(a, b) : a, b \in NodeId}
  \cup {[src |-> <<1, 0>>, dst |-> <<1, 1>>, kind |-> kind] : kind \in {Odd, <<"Uses">>}}

ReportKeys == [e \in Replica |->
  {IF e = 1 THEN [src |-> <<1, 0>>, dst |-> <<1, 1>>, kind |-> Odd] ELSE SimilarTo(<<1, 1>>, <<2, 1>>)}]
=============================================================================
