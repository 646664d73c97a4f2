---------------------------- MODULE SignedContent ----------------------------
(***************************************************************************)
(* What is inside the files Signur takes and gives back.  A content is a   *)
(* core and what was done to it, the outermost last: CMS envelopes with    *)
(* their signers, PAdES revisions with their field, drawings, XAdES        *)
(* signatures.  Users upload files made elsewhere or results they          *)
(* downloaded, and sign them in a mode and a strategy; what the service    *)
(* detects in a file decides which, and how the preview finds the PDF.     *)
(***************************************************************************)
EXTENDS PlacementGeometry, Sequences, SequencesExt

CONSTANTS Documents,
          Cores, KindOf,  \* documents made elsewhere and what they are
          PagesOf,        \* the pages of a PDF
          FieldsOf,       \* the numbers N of its fields named SignatureN
          Envelopes,      \* how many CMS envelopes are around an upload
          PlacementSets,  \* what clients place: a bound of the model
          None

Kinds == {"pdf", "broken_pdf", "xml", "opaque"}

ASSUME ContentAssumption ==
    /\ KindOf \in [Cores -> Kinds]
    /\ \A c \in Cores : /\ PagesOf[c] \in Seq(Page)
                        /\ FieldsOf[c] \subseteq Nat \ {0} /\ IsFiniteSet(FieldsOf[c])
                        /\ KindOf[c] = "pdf" => PagesOf[c] # <<>>
    /\ Envelopes \subseteq Nat
    /\ \A P \in PlacementSets : P \subseteq Placement /\ IsFiniteSet(P)
    /\ None \notin Documents \cup Cores

VARIABLES doc  \* a document: its file, what was detected, what was signed

vars == <<doc>>

-----------------------------------------------------------------------------
(* Contents *)

\* A step of a content.  A signer is the document it was signed for, None if it
\* was signed elsewhere; drawn are the matrices or the boxes of the graphics.
Step(mode, signers, field, drawn) ==
    [mode |-> mode, signers |-> signers, field |-> field, drawn |-> drawn]

Enveloped(c) == c.steps # <<>> /\ Last(c.steps).mode = "cades"
AddStep(c, step) == [c EXCEPT !.steps = Append(@, step)]

Made(core, depth) ==
    [core |-> core, steps |-> [i \in 1..depth |-> Step("cades", {None}, 0, <<>>)]]

\* The fields of the PDF: the ones it came with and the ones signing added.
Fields(c) == FieldsOf[c.core] \cup
    {c.steps[i].field : i \in {k \in DOMAIN c.steps : c.steps[k].mode = "pades"}}

-----------------------------------------------------------------------------
(* detection.py and cms_content.py *)

Format(c) ==
    IF Enveloped(c) THEN "cms_attached"
    ELSE CASE KindOf[c.core] \in {"pdf", "broken_pdf"} -> "pdf"
           [] KindOf[c.core] = "xml" -> "xml"
           [] KindOf[c.core] = "opaque" -> "opaque"

\* A PDF that cannot be read strictly, or has no page, can only be enveloped.
Capabilities(c) ==
    CASE Format(c) = "pdf" -> IF KindOf[c.core] = "pdf" THEN {"graphic", "cades", "pades"}
                              ELSE {"cades"}
      [] Format(c) = "xml" -> {"cades", "xades"}
      [] OTHER -> {"cades"}

\* extract_attached_content
Extracted(c) == [c EXCEPT !.steps = Front(@)]

Failed == [core |-> None, steps |-> <<>>]
MaxDepth == 8

\* What is left after opening 1, 2, ... envelopes, as many as there are.
Opened(c) ==
    LET after[depth \in 1..MaxDepth] ==
            IF depth = 1 THEN Extracted(c)
            ELSE IF Enveloped(after[depth - 1]) THEN Extracted(after[depth - 1])
            ELSE after[depth - 1] IN
    after

\* Mutant of NestedContent: the loop opens seven envelopes only.
NestedContentShort(c) ==
    IF ~Enveloped(c) \/ Enveloped(Opened(c)[MaxDepth - 1]) THEN Failed
    ELSE Opened(c)[MaxDepth - 1]

\* extract_nested_content: eight envelopes are opened, a ninth is an error.
NestedContent(c) ==
    IF ~Enveloped(c) \/ Enveloped(Opened(c)[MaxDepth]) THEN Failed ELSE Opened(c)[MaxDepth]

\* preview_pdf, when the file is there: Failed stands for an error answer.
Preview(d) ==
    LET c == doc[d].file
        inner == NestedContent(c) IN
    CASE doc[d].format = "pdf" -> c
      [] doc[d].format \in {"cms_attached", "opaque"} ->
            IF inner # Failed /\ Format(inner) = "pdf" THEN inner ELSE Failed
      [] doc[d].format = "xml" -> Failed

-----------------------------------------------------------------------------
(* What may be asked: SignatureCreate and create_signature *)

Request == [mode : {"graphic", "cades", "pades", "xades"},
            strategy : {"none", "new", "nested", "parallel"},
            placements : PlacementSets]

\* compatible_placements and inside_page
WellFormed(q) ==
    /\ q.mode = "graphic" => q.placements # {}
    /\ q.mode \in {"cades", "xades"} => q.placements = {}
    /\ q.strategy # "none" => q.mode = "cades"
    /\ \A p \in q.placements : InsidePage(p)
    /\ \A p1, p2 \in q.placements : p1.order = p2.order => p1 = p2

Accepted(d, q) ==
    /\ q.mode \in doc[d].capabilities
    /\ doc[d].format = "cms_attached" => q.strategy # "new"
    /\ doc[d].format # "cms_attached" => q.strategy \notin {"nested", "parallel"}

Strategy(d, q) ==
    IF q.strategy # "none" THEN q.strategy
    ELSE IF doc[d].format = "cms_attached" THEN "nested" ELSE "new"

-----------------------------------------------------------------------------
(* The builders, as process_claimed_signature uses them *)

\* sorted() by layer_order.
Ordered(P) ==
    CHOOSE s \in SetToSeqs(P) : \A i, k \in DOMAIN s : i < k => s[i].order < s[k].order

PageOf(c, p) == PagesOf[c.core][p.page]
HasPages(c, P) == \A p \in P : p.page <= Len(PagesOf[c.core])

\* Mutant of FreeField: one more than there are.
NextField(c) == Cardinality(Fields(c)) + 1

\* _free_field_name: Signature1, Signature2, ...: the first that is free.
FreeField(c) == Least((1..(Cardinality(Fields(c)) + 1)) \ Fields(c))

\* build_cades_b_b puts an envelope around the file; build_cades_parallel_b_b
\* adds a signer to the outermost one.
Envelope(c, d) == AddStep(c, Step("cades", {d}, 0, <<>>))

\* Mutant of Cosign: the added container is kept instead of the old one.
CosignAlone(c, d) == [c EXCEPT !.steps[Len(c.steps)].signers = {d}]
Cosign(c, d) == [c EXCEPT !.steps[Len(c.steps)].signers = @ \cup {d}]

\* build_pades_b_b: a revision, with a field of its own and maybe a box.
Revise(c, d, drawn) == AddStep(c, Step("pades", {d}, FreeField(c), drawn))

\* One revision for each placement, in the order of their layers.
Revisions(c, d, P) ==
    LET after[i \in 0..Cardinality(P)] ==
            IF i = 0 THEN c
            ELSE LET p == Ordered(P)[i] IN
                 Revise(after[i - 1], d, <<Box(Rect(Matrix(PageOf(c, p), p)))>>) IN
    after
ReviseEach(c, d, P) ==
    IF P = {} THEN Revise(c, d, <<>>) ELSE Revisions(c, d, P)[Cardinality(P)]

\* apply_graphics: one more revision, the graphics in the order of their layers.
Draw(c, P) ==
    AddStep(c, Step("graphic", {}, 0,
        [i \in 1..Cardinality(P) |->
            LET p == Ordered(P)[i] IN Matrix(PageOf(c, p), p)]))

\* build_xades_b_b: inside the document, or around it in Base64; XML either way.
SignXml(c, d) == AddStep(c, Step("xades", {d}, 0, <<>>))

\* The worker's dispatch.
Result(d, q) ==
    LET c == doc[d].file IN
    CASE q.mode = "cades" -> IF Strategy(d, q) = "parallel" THEN Cosign(c, d) ELSE Envelope(c, d)
      [] q.mode = "pades" -> ReviseEach(c, d, q.placements)
      [] q.mode = "xades" -> SignXml(c, d)
      [] q.mode = "graphic" -> Draw(c, q.placements)

MediaOf(mode) == CASE mode = "cades" -> "cms_attached"
                   [] mode = "xades" -> "xml"
                   [] mode \in {"pades", "graphic"} -> "pdf"

-----------------------------------------------------------------------------
(* Actions *)

NoDocument == [file |-> Failed, format |-> "none", capabilities |-> {},
               request |-> None, result |-> Failed, media |-> "none"]

Absent(d) == doc[d].format = "none"
Signed(d) == doc[d].media # "none"

\* upload_document: what was detected then is what counts from now on.
Upload(d, c) ==
    /\ Absent(d)
    /\ doc' = [doc EXCEPT ![d] = [NoDocument EXCEPT !.file = c, !.format = Format(c),
                                                   !.capabilities = Capabilities(c)]]

\* A file made elsewhere, or the result of another document.
UploadMade(d) == \E core \in Cores, depth \in Envelopes : Upload(d, Made(core, depth))
UploadResult(d, e) == Signed(e) /\ Upload(d, doc[e].result)

\* An attempt whose placements name a page that is not there fails.
Sign(d, q) ==
    /\ ~Absent(d) /\ ~Signed(d)
    /\ WellFormed(q) /\ Accepted(d, q)
    /\ HasPages(doc[d].file, q.placements)
    /\ doc' = [doc EXCEPT ![d].request = q, ![d].result = Result(d, q),
                          ![d].media = MediaOf(q.mode)]

Init == doc = [d \in Documents |-> NoDocument]

Next ==
    \E d \in Documents :
       \/ UploadMade(d)
       \/ \E e \in Documents : UploadResult(d, e)
       \/ \E q \in Request : Sign(d, q)

Spec == Init /\ [][Next]_vars

-----------------------------------------------------------------------------
(* Properties *)

\* Who signed a content, and around what: an envelope or a revision is known by
\* what lies under it.
Signatures(c) ==
    UNION {{<<SubSeq(c.steps, 1, i - 1), c.steps[i].mode, s>> : s \in c.steps[i].signers} :
              i \in DOMAIN c.steps}

\* Signing takes no signature away, wherever it is, and adds the user's own in
\* every mode but "graphic" (cades.py:74, pades.py:156, xades.py).
EverySignatureKept ==
    \A d \in Documents : Signed(d) =>
       LET before == Signatures(doc[d].file)
           after == Signatures(doc[d].result) IN
       /\ before \subseteq after
       /\ \A s \in after \ before : s[3] = d
       /\ after = before <=> doc[d].request.mode = "graphic"

\* No two PAdES revisions of a PDF share a field, nor do they take one of the PDF's
\* own, whatever names it came with (pades.py:71-77).
FieldsAreFresh ==
    \A d \in Documents : Signed(d) =>
       LET steps == doc[d].result.steps
           pades == {i \in DOMAIN steps : steps[i].mode = "pades"} IN
       \A i \in pades : /\ steps[i].field \notin FieldsOf[doc[d].result.core]
                        /\ \A k \in pades : steps[i].field = steps[k].field => i = k

\* The preview shows the PDF under all the envelopes, or nothing: never the
\* content of some envelope in between, and nothing is lost up to eight of them.
Peeled(c) ==
    [c EXCEPT !.steps = SubSeq(@, 1, Greatest({0} \cup
        {i \in DOMAIN c.steps : c.steps[i].mode # "cades"}))]
PreviewShowsThePdf ==
    \A d \in Documents : ~Absent(d) =>
       LET c == doc[d].file
           depth == Len(c.steps) - Len(Peeled(c).steps) IN
       Preview(d) = IF Format(Peeled(c)) = "pdf" /\ depth <= 8 THEN Peeled(c) ELSE Failed

\* The graphics are where the user put them, upright, on the page and in the order
\* asked for, however the page is turned (graphics_pdf.py:53-88).  The boxes of PAdES
\* fields are there to half a point, on the page and in that order (pades.py:105-110);
\* how the stamp lies in its box is up to the library.
DrawnAsPlaced ==
    \A d \in Documents : Signed(d) =>
       LET P == doc[d].request.placements
           c == doc[d].file
           steps == doc[d].result.steps
           added == SubSeq(steps, Len(c.steps) + 1, Len(steps)) IN
       /\ doc[d].request.mode = "graphic" =>
             \A p1, p2 \in P : \E i, k \in DOMAIN added[1].drawn :
                LET m1 == added[1].drawn[i]
                    m2 == added[1].drawn[k] IN
                /\ SeenAsPlaced(PageOf(c, p1), p1, m1) /\ OnPage(PageOf(c, p1), m1)
                /\ SeenAsPlaced(PageOf(c, p2), p2, m2)
                /\ p1.order < p2.order => i < k
       /\ doc[d].request.mode = "pades" /\ P # {} =>
             /\ Len(added) = Cardinality(P)
             /\ \A i \in DOMAIN added :
                   \E p \in P : LET box == added[i].drawn[1]
                                    page == PageOf(c, p) IN
                      /\ Cardinality({o \in P : o.order < p.order}) = i - 1
                      /\ page.llx <= box.left /\ box.right <= page.llx + page.width
                      /\ page.lly <= box.low /\ box.high <= page.lly + page.height
                      /\ box.left <= box.right /\ box.low <= box.high
                      /\ BoxSeenAsPlaced(page, p, box)
=============================================================================
