------------------------------- MODULE Package -------------------------------
(***************************************************************************)
(* The OOXML engine: server/src/ooxml-core.  A caller assembles a package  *)
(* specification (parts, package relationships, part relationships), the   *)
(* specification gate reads it, the builder numbers the relationships and  *)
(* packs an archive, and the archive gate reads the archive before it is   *)
(* handed out.  The archive gate is exported too: an archive that was      *)
(* altered after it was built is put to it as somebody else's bytes.       *)
(*                                                                         *)
(* Text is abstracted to what the gates tell apart.  A path is its         *)
(* directory, its base name, the number of ".rels" its name ends with and  *)
(* whether it is spelled in capitals; a part's XML is what the parser says *)
(* of it, the relationship ids it refers to (n for "rIdn", 0 for an id the *)
(* engine does not allocate) and whether its section properties come last. *)
(* Issues are the set of codes reported; warnings are left out, because    *)
(* nothing acts on them.                                                   *)
(***************************************************************************)
EXTENDS Integers, FiniteSets, SequencesExt

CONSTANTS
  Names,        \* the segments of paths: directories and base names
  PartPool,     \* the parts a caller may declare, in the order it picks them
  PackagePool,  \* the package relationships it may declare, likewise
  PartRelPool,  \* the [source, rel] pairs it may declare
  MainOptions,  \* the main relationships it may require, NoMain included
  MaxParts,     \* bound on the parts of a specification
  MaxRels,      \* bound on the relationships of each kind
  MaxAltered,   \* bound on the declarations of a package whose archive is altered
  MaxEntries,   \* MAX_ZIP_ENTRIES
  BadBases,     \* base names toZipPath refuses
  XmlBases      \* base names whose extension is "xml"

Paths == [dir : Seq(Names), base : Names, rels : Nat, upper : BOOLEAN]

Targets == [form : {"relative", "root", "external", "drive"}, up : Nat, dir : Seq(Names),
            base : Names, rels : Nat, upper : BOOLEAN]
Modes == {"internal", "external"}
RelTypes == {"main", "other"}
Rels == [type : RelTypes, target : Targets, mode : Modes]
WrittenRels == [id : Nat, type : RelTypes, target : Targets, mode : Modes]

\* Media types: of XML, of a relationship part, of anything else, or none the engine takes.
MediaTypes == {"xml", "rels", "binary"}
Types == MediaTypes \cup {"bad"}

Bodies == [root : {"doc", "Types", "Relationships"},
           xml : {"good", "illegal", "limit", "malformed"}, ordered : BOOLEAN,
           refs : SUBSET Nat, rels : Seq(WrittenRels), defaults : SUBSET {"rels", "xml"},
           overrides : SUBSET [name : Paths, type : Types]]

\* What is declared is named by a path, a part by a path with a name at its end, and only
\* a relationship part has relationships in its text.
ASSUME PartPoolAssumption ==
  \A i \in DOMAIN PartPool :
    /\ PartPool[i] \in [name : Paths, type : Types, body : Bodies]
    /\ PartPool[i].name.base # ""
    /\ PartPool[i].body.rels # <<>> => PartPool[i].name.rels > 0
ASSUME RelPoolsAssumption ==
  /\ \A i \in DOMAIN PackagePool : PackagePool[i] \in Rels
  /\ PartRelPool \subseteq [source : Paths, rel : Rels]
ASSUME NamesAssumption == {"", "_rels", "[Content_Types].xml", "else"} \subseteq Names
\* toZipPath accepts the paths the engine writes itself.
ASSUME BasesAssumption == BadBases \cap {"", "[Content_Types].xml"} = {}
ASSUME EntriesAssumption == MaxEntries \in Nat \ {0}

VARIABLES
  spec,     \* OoxmlPackageSpec: parts, packageRels, partRels
  main,     \* options.mainRelationship of this build
  phase,    \* how far build(), or the check of a foreign archive, has come
  issues,   \* the codes the last gate, or the builder, reported
  archive   \* what ZipWriter has packed: a set of entries, and the flaw of its frame

vars == <<spec, main, phase, issues, archive>>

\* The option left out.
NoMain ==
  [type |-> "none",
   target |-> [form |-> "external", up |-> 0, dir |-> <<>>, base |-> "",
               rels |-> 0, upper |-> FALSE]]
ASSUME MainAssumption == NoMain \in MainOptions

-----------------------------------------------------------------------------
(* Paths: paths.ts and rels.ts *)

Path(dir, base) == [dir |-> dir, base |-> base, rels |-> 0, upper |-> FALSE]

\* The package itself, as the source of the package relationships.
Root == Path(<<>>, "")

\* What a target that cannot be resolved resolves to.
Nowhere == Path(<<"..">>, "")

\* asciiLower: OPC compares names without regard to case.
Fold(p) == [p EXCEPT !.upper = FALSE]

\* toZipPath refuses device names, colons, dots and blanks; else it is the path.
PathOk(p) == p.base \notin BadBases

\* "word/document.xml" owns "word/_rels/document.xml.rels".
relsPathForPart(p) == [p EXCEPT !.dir = Append(@, "_rels"), !.rels = @ + 1]

PACKAGE_RELS_PATH == relsPathForPart(Root)
CONTENT_TYPES_PATH == Path(<<>>, "[Content_Types].xml")
EngineOwned == {CONTENT_TYPES_PATH, PACKAGE_RELS_PATH}

IsRels(p) == p.rels > 0

\* The way back from a relationship part to its source, by its name alone.
sourceForRels(p) ==
  IF IsRels(p) /\ p.dir # <<>> /\ Last(p.dir) = "_rels"
  THEN [p EXCEPT !.dir = Front(@), !.rels = @ - 1]
  ELSE Nowhere

\* A target is relative to the directory of its source, or to the root.
resolveRelTarget(source, t) ==
  LET from == IF t.form = "root" THEN <<>> ELSE source.dir
  IN IF t.form \in {"external", "drive"} \/ t.up > Len(from)
     THEN Nowhere
     ELSE [dir |-> SubSeq(from, 1, Len(from) - t.up) \o t.dir,
           base |-> t.base, rels |-> t.rels, upper |-> t.upper]

Has(names, p) == \E n \in names : Fold(n) = Fold(p)

-----------------------------------------------------------------------------
(* What both gates ask of a document, a relationship and the whole package *)

\* parseXml, by what the text is: illegal characters, too deep or too large, malformed.
XmlCode == [illegal |-> "E_XML_ILLEGAL_CHAR", limit |-> "E_XML_LIMIT",
            malformed |-> "E_XML_MALFORMED"]
parseXml(body) == IF body.xml = "good" THEN {} ELSE {XmlCode[body.xml]}

\* sectPr must be the last child of body.
checkWordOrder(body) == IF body.ordered THEN {} ELSE {"E_PACKAGE_ORDER"}

checkInternalTarget(source, t, names) ==
  LET hit == resolveRelTarget(source, t)
  IN IF hit = Nowhere THEN {"E_REL_BAD_TARGET"}
     ELSE IF Has(names, hit) THEN {} ELSE {"E_REL_DANGLING_REF"}

\* The shape of a relationship, the same in a specification and in a .rels part.
RelIssues(rel, source, names) ==
  IF rel.target.form = "drive" THEN {"E_REL_BAD_TARGET"}
  ELSE IF rel.mode = "external" THEN {}
  ELSE IF rel.target.form = "external" THEN {"E_REL_BAD_TARGET"}
  ELSE checkInternalTarget(source, rel.target, names)

\* internalTarget: the key a relationship leads to, or nowhere.
internalTarget(source, rel) ==
  IF rel.mode = "external" THEN Nowhere ELSE Fold(resolveRelTarget(source, rel.target))

Edge(source, rel) ==
  [from |-> Fold(source), to |-> internalTarget(source, rel), type |-> rel.type]

\* Everything that relationships lead to, from the package on.
Reached(edges) ==
  LET after[n \in 0..Cardinality(edges)] ==
        IF n = 0 THEN {Root}
        ELSE LET before == after[n - 1]
             IN before \cup {e.to : e \in {d \in edges : d.from \in before}}
  IN after[Cardinality(edges)]

\* Relationship parts are bound by their name, the type table by nothing.
checkReachability(names, edges) ==
  {"E_PACKAGE_UNREACHABLE" :
     n \in {m \in names : ~IsRels(m) /\ Fold(m) \notin Reached(edges) \cup {CONTENT_TYPES_PATH}}}

\* Faulty: any relationship to the main part will do, whatever it is for.
MainByTargetAlone(edges, required) ==
  IF required = NoMain \/
     \E e \in edges : e.from = Root /\ e.to = Fold(resolveRelTarget(Root, required.target))
  THEN {} ELSE {"E_PACKAGE_MAIN_REL"}

checkMainRelationship(edges, required) ==
  IF required = NoMain \/
     \E e \in edges : /\ e.from = Root
                      /\ e.to = Fold(resolveRelTarget(Root, required.target))
                      /\ e.type = required.type
  THEN {} ELSE {"E_PACKAGE_MAIN_REL"}

-----------------------------------------------------------------------------
(* The specification gate: validateSpec *)

\* The parts the gate files: usable, not taken by an earlier part or the engine.
Filed(parts) ==
  {i \in DOMAIN parts :
     /\ PathOk(parts[i].name)
     /\ Fold(parts[i].name) \notin EngineOwned
     /\ \A j \in 1..(i - 1) : Fold(parts[j].name) # Fold(parts[i].name)}

Files(s) == {s.parts[i].name : i \in Filed(s.parts)}

PartIssues(s) ==
  UNION {IF ~PathOk(s.parts[i].name) THEN {"E_ZIP_PATH"}
         ELSE IF i \notin Filed(s.parts) THEN {"E_PACKAGE_DUP_PART"}
         ELSE parseXml(s.parts[i].body)
              \cup (IF s.parts[i].body.xml = "good"
                    THEN checkWordOrder(s.parts[i].body) ELSE {})
              \cup (IF s.parts[i].type = "bad" THEN {"E_CONTENTTYPE_BAD_TYPE"} ELSE {})
         : i \in DOMAIN s.parts}

\* The sources that declare relationships, as the caller spells them.
Sources(s) == {s.partRels[i].source : i \in DOMAIN s.partRels}

\* The n-th of a set of places.
Nth(places, n) == CHOOSE i \in places : Cardinality({j \in places : j <= i}) = n

\* The relationships of one source: those of all its spellings, one after the other.
DeclaredRels(s, source) ==
  LET at == {i \in DOMAIN s.partRels : Fold(s.partRels[i].source) = Fold(source)}
  IN [n \in 1..Cardinality(at) |-> s.partRels[Nth(at, n)].rel]

PartRelIssues(s, d) ==
  IF ~PathOk(d.source) THEN {"E_ZIP_PATH"}
  ELSE IF ~Has(Files(s), d.source) THEN {"E_REL_BAD_TARGET"}
  ELSE RelIssues(d.rel, d.source, Files(s))

DeclaredRelIssues(s) ==
  (UNION {RelIssues(s.packageRels[i], Root, Files(s)) : i \in DOMAIN s.packageRels})
  \cup (UNION {PartRelIssues(s, s.partRels[i]) : i \in DOMAIN s.partRels})

\* A scope is written to a path of its own, which no part may have.
ScopeIssues(s) ==
  {"E_PACKAGE_DUP_PART" :
     source \in {d \in Sources(s) : /\ Has(Files(s), d)
                                    /\ Has(Files(s), relsPathForPart(d))}}

\* Faulty: the bound is off by one.
ReferencesOneTooMany(s) ==
  {"E_REL_DANGLING_REF" :
     i \in {j \in Filed(s.parts) :
              \E r \in s.parts[j].body.refs :
                r \notin 1..(Len(DeclaredRels(s, s.parts[j].name)) + 1)}}

\* A document refers to relationships by the numbers the engine will give them.
ReferenceIssues(s) ==
  {"E_REL_DANGLING_REF" :
     i \in {j \in Filed(s.parts) :
              /\ s.parts[j].body.xml = "good"
              /\ ~(s.parts[j].body.refs \subseteq
                     DOMAIN DeclaredRels(s, s.parts[j].name))}}

SpecEdges(s) ==
  {Edge(Root, s.packageRels[i]) : i \in DOMAIN s.packageRels}
  \cup {Edge(s.partRels[i].source, s.partRels[i].rel) : i \in DOMAIN s.partRels}

validateSpec(s, required) ==
  IF s.parts = <<>> THEN {"E_PACKAGE_MISSING_PART"}
  ELSE IF Len(s.parts) >= MaxEntries THEN {"E_ZIP_LIMIT"}
  ELSE UNION {PartIssues(s), DeclaredRelIssues(s), ScopeIssues(s), ReferenceIssues(s),
              checkMainRelationship(SpecEdges(s), required),
              checkReachability(Files(s), SpecEdges(s))}

-----------------------------------------------------------------------------
(* The builder: package.ts, content-types.ts, RelScope and ZipWriter *)

PartNames(s) == {s.parts[i].name : i \in DOMAIN s.parts}

\* canonicalSource: a scope is that of the part, under the part's own spelling.
canonicalSource(s, source) == CHOOSE n \in PartNames(s) : Fold(n) = Fold(source)

\* The builder refuses what it would pack wrongly, whatever the gate has said.
BuilderIssues(s) ==
  LET sources == {d \in Sources(s) : Has(PartNames(s), d)}
      scopes == {relsPathForPart(d) : d \in sources} \cup EngineOwned
  IN UNION {
       IF \E i \in DOMAIN s.parts : ~PathOk(s.parts[i].name) THEN {"E_ZIP_PATH"} ELSE {},
       IF \E i, j \in DOMAIN s.parts : i # j /\ Fold(s.parts[i].name) = Fold(s.parts[j].name)
       THEN {"E_PACKAGE_DUP_PART"} ELSE {},
       IF \E i \in DOMAIN s.parts : s.parts[i].type = "bad"
       THEN {"E_CONTENTTYPE_BAD_TYPE"} ELSE {},
       IF \E n \in PartNames(s) : Has(scopes, n) THEN {"E_PACKAGE_DUP_PART"} ELSE {},
       UNION {RelIssues(s.packageRels[i], Root, PartNames(s)) : i \in DOMAIN s.packageRels},
       UNION {IF s.partRels[i].source \in sources
              THEN RelIssues(s.partRels[i].rel, s.partRels[i].source, PartNames(s))
              ELSE {"E_REL_BAD_TARGET"}
              : i \in DOMAIN s.partRels}}

\* Faulty: the last relationship declared is given the first number.
NumberedFromTheEnd(rels) ==
  [i \in DOMAIN rels |-> [id |-> Len(rels) + 1 - i, type |-> rels[i].type,
                          target |-> rels[i].target, mode |-> rels[i].mode]]

\* RelScope: every scope counts its relationships from rId1 on.
NumberedRels(rels) ==
  [i \in DOMAIN rels |-> [id |-> i, type |-> rels[i].type,
                          target |-> rels[i].target, mode |-> rels[i].mode]]

RelsBody(rels) ==
  [root |-> "Relationships", xml |-> "good", ordered |-> TRUE, refs |-> {},
   rels |-> NumberedRels(rels), defaults |-> {}, overrides |-> {}]

\* The type table: the two extensions of the engine and an Override for every part.
TypesBody(s) ==
  [root |-> "Types", xml |-> "good", ordered |-> TRUE, refs |-> {}, rels |-> <<>>,
   defaults |-> {"rels", "xml"},
   overrides |-> {[name |-> s.parts[i].name, type |-> s.parts[i].type]
                  : i \in DOMAIN s.parts}]

Entry(name, body) == [name |-> name, body |-> body, flaw |-> "none"]

Entries(s) ==
  {Entry(CONTENT_TYPES_PATH, TypesBody(s)), Entry(PACKAGE_RELS_PATH, RelsBody(s.packageRels))}
  \cup {Entry(relsPathForPart(canonicalSource(s, d)), RelsBody(DeclaredRels(s, d)))
        : d \in Sources(s)}
  \cup {Entry(s.parts[i].name, s.parts[i].body) : i \in DOMAIN s.parts}

\* ZipWriter.add: one entry to a name, and no more of them than a reader takes.
ZipWriterIssues(entries) ==
  (IF Cardinality(entries) > MaxEntries THEN {"E_ZIP_LIMIT"} ELSE {})
  \cup (IF \E e, f \in entries : e # f /\ Fold(e.name) = Fold(f.name)
        THEN {"E_PACKAGE_DUP_PART"} ELSE {})

-----------------------------------------------------------------------------
(* The archive gate: inspectZip and validateZipBytes *)

\* A flaw of the archive's frame, or of an entry's headers, and what is said of it.
FrameCode ==
  [none |-> {}, tooLarge |-> {"E_ZIP_LIMIT"}, noEnd |-> {"E_ZIP_FORMAT"},
   zip64 |-> {"E_ZIP_ZIP64"}, multiDisk |-> {"E_ZIP_FORMAT"}]

FatalCode ==
  [zip64 |-> {"E_ZIP_ZIP64"}, symlink |-> {"E_ZIP_SYMLINK"}, special |-> {"E_ZIP_FORMAT"},
   oversized |-> {"E_ZIP_LIMIT"}, bomb |-> {"E_ZIP_LIMIT"}, extra |-> {"E_ZIP_FORMAT"}]

HeaderCode ==
  [none |-> {}, descriptor |-> {}, method |-> {"E_ZIP_METHOD"}, encrypted |-> {"E_ZIP_GPBIT"},
   masked |-> {"E_ZIP_GPBIT"}, noLocal |-> {"E_ZIP_FORMAT"}, disagree |-> {"E_ZIP_FORMAT"},
   overlap |-> {"E_ZIP_FORMAT"}, central |-> {"E_ZIP_FORMAT"}, directory |-> {"E_ZIP_PATH"},
   encoding |-> {}]

ContentCode ==
  [inflate |-> {"E_ZIP_FORMAT"}, size |-> {"E_ZIP_FORMAT"}, crc |-> {"E_ZIP_CRC"}]

\* The ratio heuristic is not armed for bytes the engine has just written.
Fatal(e, engineBuilt) == e.flaw \in DOMAIN FatalCode /\ ~(engineBuilt /\ e.flaw = "bomb")

\* An entry without usable headers or bytes is left out of what is read.
Readable(e) ==
  e.flaw \notin {"noLocal", "method", "encrypted", "inflate", "central", "directory"}

\* decodeXmlPart: the bytes must be the encoding they declare, then the text is parsed.
decodeXmlPart(e) ==
  IF e.flaw = "encoding" THEN {"E_XML_MALFORMED"} ELSE parseXml(e.body)

inspectZip(a, engineBuilt) ==
  IF a.flaw # "none" THEN FrameCode[a.flaw]
  ELSE IF Cardinality(a.entries) > MaxEntries THEN {"E_ZIP_LIMIT"}
  ELSE UNION {FatalCode[e.flaw] : e \in {f \in a.entries : Fatal(f, engineBuilt)}}

EntryIssues(a) ==
  (UNION {HeaderCode[e.flaw] : e \in {f \in a.entries : f.flaw \in DOMAIN HeaderCode}})
  \cup (UNION {ContentCode[e.flaw] : e \in {f \in a.entries : f.flaw \in DOMAIN ContentCode}})
  \cup {"E_ZIP_PATH" : e \in {f \in a.entries : ~PathOk(f.name)}}
  \cup {"E_PACKAGE_DUP_PART" :
          e \in {f \in a.entries : \E g \in a.entries : g # f /\ Fold(g.name) = Fold(f.name)}}
  \cup {"E_PACKAGE_MISSING_PART" : p \in EngineOwned \ {e.name : e \in a.entries}}

\* The entry with the table's exact name, when its bytes can be read.
Tables(a) == {e \in a.entries : e.name = CONTENT_TYPES_PATH /\ Readable(e)}

\* parseContentTypes; of two Overrides for one part, either may be read: it is refused.
ContentTypes(a) ==
  LET sound == {e \in Tables(a) : decodeXmlPart(e) = {} /\ e.body.root = "Types"}
  IN [defaults |-> UNION {e.body.defaults : e \in sound},
      overrides |-> UNION {e.body.overrides : e \in sound}]

ContentTypesIssues(a) ==
  (UNION {decodeXmlPart(e) : e \in Tables(a)})
  \cup {"E_XML_MALFORMED" : e \in {f \in Tables(a) : f.body.root # "Types"}}
  \cup {"E_CONTENTTYPE_DUP_OVERRIDE" :
          o \in {x \in ContentTypes(a).overrides :
                   \E y \in ContentTypes(a).overrides : x # y /\ Fold(x.name) = Fold(y.name)}}

Extension(p) ==
  IF IsRels(p) THEN "rels" ELSE IF p.base \in XmlBases THEN "xml" ELSE "other"

\* An Override wins, then the Default of the extension; never a guess.
contentTypeFor(p, table) ==
  LET overrides == {o \in table.overrides : Fold(o.name) = Fold(p)}
  IN IF overrides # {} THEN (CHOOSE o \in overrides : TRUE).type
     ELSE IF Extension(p) \in table.defaults THEN Extension(p) ELSE "none"

checkContentTypeCoverage(a, table) ==
  {"E_CONTENTTYPE_ORPHAN_OVERRIDE" :
     o \in {x \in table.overrides : ~Has({e.name : e \in a.entries}, x.name)}}
  \cup UNION {LET type == contentTypeFor(e.name, table)
              IN IF type = "none" THEN {"E_CONTENTTYPE_UNCOVERED"}
                 ELSE IF IsRels(e.name) /\ type # "rels" THEN {"E_CONTENTTYPE_BAD_TYPE"}
                 ELSE {}
              : e \in {f \in a.entries : Fold(f.name) # CONTENT_TYPES_PATH}}

\* What is parsed: relationship parts, and parts of an XML media type.
Parsed(a, table) ==
  {e \in a.entries : /\ Fold(e.name) # CONTENT_TYPES_PATH
                     /\ IsRels(e.name) \/ contentTypeFor(e.name, table) \in {"xml", "rels"}
                     /\ Readable(e)}
Documents(a, table) == {e \in Parsed(a, table) : decodeXmlPart(e) = {}}
RelsParts(a, table) == {e \in Documents(a, table) : IsRels(e.name)}

\* The relationships of a .rels part that count: an id is a name, and used once.
ReadRels(body) ==
  IF body.root # "Relationships" THEN {}
  ELSE {i \in DOMAIN body.rels :
          /\ body.rels[i].id # 0
          /\ \A j \in 1..(i - 1) : body.rels[j].id # body.rels[i].id}

checkRelationships(e, names) ==
  (IF e.body.root # "Relationships" THEN {"E_XML_MALFORMED"} ELSE {})
  \cup UNION {IF i \in ReadRels(e.body)
              THEN RelIssues(e.body.rels[i], sourceForRels(e.name), names)
              ELSE IF e.body.rels[i].id = 0 THEN {"E_REL_BAD_TARGET"} ELSE {"E_REL_DUP_RID"}
              : i \in IF e.body.root = "Relationships" THEN DOMAIN e.body.rels ELSE {}}

\* A .rels part that no part is named after is refused, and its relationships ignored.
RelsPartIssues(a, table) ==
  LET names == {e.name : e \in a.entries}
  IN UNION {IF sourceForRels(e.name) = Nowhere THEN {"E_REL_BAD_TARGET"}
            ELSE checkRelationships(e, names)
                 \cup (IF Fold(sourceForRels(e.name)) = Root \/ Has(names, sourceForRels(e.name))
                       THEN {} ELSE {"E_REL_BAD_TARGET"})
            : e \in RelsParts(a, table)}

ArchiveEdges(a, table) ==
  UNION {{Edge(sourceForRels(e.name), e.body.rels[i]) : i \in ReadRels(e.body)}
         : e \in {f \in RelsParts(a, table) : sourceForRels(f.name) # Nowhere}}

\* Faulty: an id of any relationship part will do, as if ids were global.
ReferencesAreGlobal(a, table) ==
  {"E_REL_DANGLING_REF" :
     e \in {f \in Documents(a, table) \ RelsParts(a, table) :
              \E r \in f.body.refs :
                ~\E s \in RelsParts(a, table) :
                   \E i \in ReadRels(s.body) : s.body.rels[i].id = r}}

checkRelationshipReferences(a, table) ==
  {"E_REL_DANGLING_REF" :
     e \in {f \in Documents(a, table) \ RelsParts(a, table) :
              \E r \in f.body.refs :
                ~\E s \in RelsParts(a, table) :
                   /\ Fold(s.name) = Fold(relsPathForPart(f.name))
                   /\ \E i \in ReadRels(s.body) : s.body.rels[i].id = r}}

validateZipBytes(a, engineBuilt, required) ==
  LET frame == inspectZip(a, engineBuilt)
      table == ContentTypes(a)
      edges == ArchiveEdges(a, table)
  IN IF frame # {} THEN frame
     ELSE UNION {EntryIssues(a), ContentTypesIssues(a),
                 checkContentTypeCoverage(a, table),
                 UNION {decodeXmlPart(e) : e \in Parsed(a, table)},
                 RelsPartIssues(a, table),
                 checkMainRelationship(edges, required),
                 checkReachability({e.name : e \in a.entries}, edges),
                 checkRelationshipReferences(a, table),
                 UNION {checkWordOrder(e.body) :
                          e \in Documents(a, table) \ RelsParts(a, table)}}

-----------------------------------------------------------------------------
(* A build, and the check of an altered archive *)

NoArchive == [flaw |-> "none", entries |-> {}]

Init ==
  /\ spec = [parts |-> <<>>, packageRels |-> <<>>, partRels |-> <<>>]
  /\ main = NoMain
  /\ phase = "declaring"
  /\ issues = {}
  /\ archive = NoArchive

\* A bound: nothing is declared after a part or a relationship that is refused for itself.
MayDeclare ==
  /\ phase = "declaring"
  /\ PartIssues(spec) = {} /\ DeclaredRelIssues(spec) = {}

\* The next item of a pool: a caller picks each at most once, in the pool's order.
Later(pool, picked) ==
  {i \in DOMAIN pool : \A j \in DOMAIN picked : \E k \in 1..(i - 1) : pool[k] = picked[j]}

DeclarePart ==
  /\ MayDeclare
  /\ Len(spec.parts) < MaxParts
  /\ spec.packageRels = <<>> /\ spec.partRels = <<>>
  /\ \E i \in Later(PartPool, spec.parts) :
       spec' = [spec EXCEPT !.parts = Append(@, PartPool[i])]
  /\ UNCHANGED <<main, phase, issues, archive>>

DeclarePackageRel ==
  /\ MayDeclare
  /\ spec.parts # <<>> /\ spec.partRels = <<>>
  /\ Len(spec.packageRels) < MaxRels
  /\ \E i \in Later(PackagePool, spec.packageRels) :
       spec' = [spec EXCEPT !.packageRels = Append(@, PackagePool[i])]
  /\ UNCHANGED <<main, phase, issues, archive>>

\* partRels is a record from spellings to lists: a spelling's own are kept together.
DeclarePartRel ==
  /\ MayDeclare
  /\ spec.parts # <<>>
  /\ Len(spec.partRels) < MaxRels
  /\ \E d \in PartRelPool :
       /\ d.source \in Sources(spec) => Last(spec.partRels).source = d.source
       /\ spec' = [spec EXCEPT !.partRels = Append(@, d)]
  /\ UNCHANGED <<main, phase, issues, archive>>

\* Faulty: the result of the gate is not asserted.
ValidateSpecUnasserted ==
  /\ phase = "declaring"
  /\ spec.parts # <<>>
  /\ main' \in MainOptions
  /\ issues' = validateSpec(spec, main')
  /\ phase' = "gated"
  /\ UNCHANGED <<spec, archive>>

\* build(options), first half: the specification gate. The schema wants a part.
ValidateSpec ==
  /\ phase = "declaring"
  /\ spec.parts # <<>>
  /\ main' \in MainOptions
  /\ issues' = validateSpec(spec, main')
  /\ phase' = IF issues' = {} THEN "gated" ELSE "refused"
  /\ UNCHANGED <<spec, archive>>

\* build(), second half: number, pack, and put the result to the archive gate.
Pack ==
  /\ phase = "gated"
  /\ issues' = IF BuilderIssues(spec) # {} THEN BuilderIssues(spec)
               ELSE ZipWriterIssues(Entries(spec))
  /\ phase' = IF issues' = {} THEN "packed" ELSE "failed"
  /\ archive' = IF issues' = {} THEN [flaw |-> "none", entries |-> Entries(spec)]
                ELSE NoArchive
  /\ UNCHANGED <<spec, main>>

ValidateBuilt ==
  /\ phase = "packed"
  /\ issues' = validateZipBytes(archive, TRUE, main)
  /\ phase' = IF issues' = {} THEN "built" ELSE "failed"
  /\ UNCHANGED <<spec, main, archive>>

\* An entry under another name, with a flaw, or without part of what its text declares.
Renamed(e) == {[e EXCEPT !.name.upper = ~@], [e EXCEPT !.name.dir = Append(@, "else")]}
Flawed(e) ==
  {[e EXCEPT !.flaw = f] : f \in DOMAIN FatalCode \cup DOMAIN HeaderCode \cup DOMAIN ContentCode}
Retyped(e) ==
  {[e EXCEPT !.body.overrides = @ \ {o}] : o \in e.body.overrides}
  \cup {[e EXCEPT !.body.overrides = (@ \ {o}) \cup {[o EXCEPT !.type = t]}] :
          o \in e.body.overrides, t \in MediaTypes}
Redirected(e) ==
  {[e EXCEPT !.body.rels = Front(@)]}
  \cup {[e EXCEPT !.body.rels[Len(e.body.rels)].id = n] : n \in 0..2}
  \cup {[e EXCEPT !.body.rels[Len(e.body.rels)].type = t] : t \in RelTypes}

AlteredEntries(e) ==
  UNION {Renamed(e), Flawed(e), Retyped(e), IF e.body.rels = <<>> THEN {} ELSE Redirected(e)}

\* What may become of an archive between its writer and somebody else's reader.
Alterations ==
  {[archive EXCEPT !.flaw = f] : f \in DOMAIN FrameCode \ {"none"}}
  \cup UNION {
    {[archive EXCEPT !.entries = @ \ {e}],
     [archive EXCEPT !.entries = @ \cup {[e EXCEPT !.name.upper = ~@]}]}
    \cup {[archive EXCEPT !.entries = (@ \ {e}) \cup {f}] : f \in AlteredEntries(e)}
    : e \in archive.entries}

Alter ==
  /\ phase = "built"
  /\ Len(spec.parts) + Len(spec.packageRels) + Len(spec.partRels) <= MaxAltered
  /\ archive' \in Alterations
  /\ phase' = "altered"
  /\ UNCHANGED <<spec, main, issues>>

ValidateForeign ==
  /\ phase = "altered"
  /\ issues' = validateZipBytes(archive, FALSE, main)
  /\ phase' = IF issues' = {} THEN "accepted" ELSE "rejected"
  /\ UNCHANGED <<spec, main, archive>>

Next ==
  \/ DeclarePart \/ DeclarePackageRel \/ DeclarePartRel
  \/ ValidateSpec \/ Pack \/ ValidateBuilt
  \/ Alter \/ ValidateForeign

Spec == Init /\ [][Next]_vars

-----------------------------------------------------------------------------
(* Properties *)

\* What stands in the archive under the key of a path.
EntriesAt(p) == {e \in archive.entries : Fold(e.name) = Fold(p)}

\* A set of parts is closed when relationships lead from it, and from the package, only
\* to parts of it.
Closed(parts) ==
  \A e \in archive.entries : \A i \in DOMAIN e.body.rels :
    Fold(sourceForRels(e.name)) \in parts \cup {Root} =>
      internalTarget(sourceForRels(e.name), e.body.rels[i]) \in parts \cup {Nowhere}

\* Read as XML: what its Override says, or its extension when none names it.
IsXml(e) ==
  \E t \in archive.entries :
    /\ t.name = CONTENT_TYPES_PATH
    /\ \/ \E o \in t.body.overrides : Fold(o.name) = Fold(e.name) /\ o.type # "binary"
       \/ Extension(e.name) = "rels"
       \/ /\ ~\E o \in t.body.overrides : Fold(o.name) = Fold(e.name)
          /\ Extension(e.name) = "xml"

Sound(e) == e.flaw \in {"none", "descriptor"} \/ (e.flaw = "encoding" /\ ~IsXml(e))

\* A package a reader opens without repairing it, said without the gates: one sound entry
\* to a name; each part of a known type, reached whichever closed set is taken; every
\* internal relationship with its target in the package; every reference of a document
\* with one relationship of its own; and the main relationship.
Whole ==
  LET parts == {Fold(e.name) : e \in {f \in archive.entries :
                                        ~IsRels(f.name) /\ Fold(f.name) # CONTENT_TYPES_PATH}}
  IN /\ archive.flaw = "none"
     /\ \A e \in archive.entries : Sound(e) /\ EntriesAt(e.name) = {e}
     /\ EngineOwned \subseteq {e.name : e \in archive.entries}
     /\ \A p \in parts : \E t \in EntriesAt(CONTENT_TYPES_PATH) :
          Extension(p) = "xml" \/ \E o \in t.body.overrides : Fold(o.name) = p
     /\ \A reached \in SUBSET parts : Closed(reached) => reached = parts
     /\ \A e \in archive.entries : \A i \in DOMAIN e.body.rels :
          e.body.rels[i].mode = "internal" =>
            EntriesAt(internalTarget(sourceForRels(e.name), e.body.rels[i])) # {}
     /\ \A e \in {f \in archive.entries : IsXml(f) /\ ~IsRels(f.name)} :
          \A r \in e.body.refs : \E s \in EntriesAt(relsPathForPart(e.name)) :
            Cardinality({i \in DOMAIN s.body.rels : s.body.rels[i].id = r}) = 1
     /\ main = NoMain \/ \E s \in EntriesAt(PACKAGE_RELS_PATH) : \E i \in DOMAIN s.body.rels :
          /\ internalTarget(Root, s.body.rels[i]) = Fold(resolveRelTarget(Root, main.target))
          /\ s.body.rels[i].type = main.type

TypeOK ==
  /\ main \in MainOptions
  /\ phase \in {"declaring", "refused", "gated", "packed", "failed", "built",
                "altered", "accepted", "rejected"}
  /\ phase \in {"refused", "failed", "rejected"} <=> issues # {}
  /\ \A i \in DOMAIN spec.parts : spec.parts[i] \in {PartPool[j] : j \in DOMAIN PartPool}
  /\ \A i \in DOMAIN spec.partRels : spec.partRels[i] \in PartRelPool
  /\ archive.flaw \in DOMAIN FrameCode

\* What is handed out is whole, whatever was declared (package.ts:5, "illegal-OPC bytes are
\* never packed").
BuiltIsWhole == phase = "built" => Whole

\* Of somebody else's bytes, the exported gate accepts no package that is not whole, and
\* no two alterations that hide behind one another: it reads every entry it can.
AcceptedIsWhole == phase = "accepted" => Whole

\* What the specification gate lets through is built: the later gates, which read the same
\* package by other means, agree with it. Only the engine's own entries can still break the
\* entry limit, and only a relationship part of the caller's own is read for the first time
\* by the archive gate.
FirstGateIsLast ==
  phase = "failed" =>
    \/ issues = {"E_ZIP_LIMIT"} /\ Cardinality(Entries(spec)) > MaxEntries
    \/ \E n \in PartNames(spec) : IsRels(n)

\* The n-th relationship declared for a part, over all the spellings of its name, is the
\* rIdn of that part's own relationship part: a document's reference means what its author
\* declared, and a second spelling neither restarts the count nor drops the first.
ReferencesMeanWhatWasDeclared ==
  phase = "built" =>
    \A d \in Sources(spec) :
      LET own == EntriesAt(relsPathForPart(d))
          at == {k \in DOMAIN spec.partRels : Fold(spec.partRels[k].source) = Fold(d)}
      IN \E e \in own :
           /\ own = {e}
           /\ DOMAIN e.body.rels = 1..Cardinality(at)
           /\ \A k \in at :
                \E i \in DOMAIN e.body.rels :
                  /\ e.body.rels[i].id = Cardinality({j \in at : j <= k})
                  /\ internalTarget(sourceForRels(e.name), e.body.rels[i]) =
                       internalTarget(d, spec.partRels[k].rel)
                  /\ e.body.rels[i].type = spec.partRels[k].rel.type
=============================================================================
