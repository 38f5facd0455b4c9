------------------------------ MODULE MCPackage ------------------------------
(* A main document with styles, numbering-like references and their slips. *)
EXTENDS Package

D == Path(<<"word">>, "document")
S == Path(<<"word">>, "styles")
C == Path(<<>>, "core")
Capital(p) == [p EXCEPT !.upper = TRUE]

Doc(xml, refs, ordered) ==
  [root |-> "doc", xml |-> xml, ordered |-> ordered, refs |-> refs,
   rels |-> <<>>, defaults |-> {}, overrides |-> {}]
Plain == Doc("good", {}, TRUE)
Part(name, type, body) == [name |-> name, type |-> type, body |-> body]

T(form, up, dir, base, upper) ==
  [form |-> form, up |-> up, dir |-> dir, base |-> base, rels |-> 0, upper |-> upper]
Rel(type, target, mode) == [type |-> type, target |-> target, mode |-> mode]
ToD == Rel("main", T("relative", 0, <<"word">>, "document", FALSE), "internal")
ToDCapital == Rel("main", T("root", 0, <<"word">>, "document", TRUE), "internal")
ToC == Rel("other", T("relative", 0, <<>>, "core", FALSE), "internal")
ToS == Rel("other", T("relative", 0, <<>>, "styles", FALSE), "internal")
UpToC == Rel("other", T("relative", 1, <<>>, "core", FALSE), "internal")
Escapes == Rel("other", T("relative", 2, <<>>, "core", FALSE), "internal")
Link == Rel("other", T("external", 0, <<>>, "", FALSE), "external")
LinkInside == Rel("other", T("external", 0, <<>>, "", FALSE), "internal")
Drive == Rel("other", T("drive", 0, <<>>, "", FALSE), "external")

MCPartPool ==
  <<Part(D, "xml", Plain),
    Part(D, "xml", Doc("good", {1}, TRUE)),
    Part(Capital(D), "xml", Doc("good", {1, 2}, TRUE)),
    Part(D, "xml", Doc("good", {0}, TRUE)),
    Part(S, "xml", Plain),
    Part(S, "binary", Plain),
    Part(S, "xml", Doc("good", {}, FALSE)),
    Part(S, "bad", Plain),
    Part(C, "xml", Doc("malformed", {}, TRUE)),
    Part(C, "xml", Plain),
    Part(Path(<<>>, "con"), "xml", Plain),
    Part(Capital(CONTENT_TYPES_PATH), "xml", Plain),
    Part(relsPathForPart(D), "rels", RelsBody(<<UpToC>>)),
    Part([S EXCEPT !.rels = 1], "rels", RelsBody(<<>>)),
    Part(relsPathForPart(D), "xml", Plain)>>
MCPackagePool == <<ToD, ToDCapital, ToC, Rel("other", ToD.target, "internal"), Link, LinkInside>>
MCPartRelPool ==
  [source : {D}, rel : {ToS, UpToC, Escapes, Link, Drive}]
  \cup [source : {Capital(D)}, rel : {UpToC, Link}]
  \cup [source : {S}, rel : {UpToC}]
  \cup [source : {C}, rel : {[ToD EXCEPT !.type = "other"]}]
MCMainOptions == {NoMain, [type |-> "main", target |-> ToD.target]}
=============================================================================
