----------------------------- MODULE DocClasses -----------------------------
(***************************************************************************)
(* The classes that read doxygen's XML files (generated/compoundsuper.py,  *)
(* indexsuper.py), as they read: for each class the attributes             *)
(* buildAttributes keeps, what its buildChildren does with text, and the   *)
(* child elements it has a branch for, each with the class that reads it   *)
(* and where the result goes.  The classes are those reached from a        *)
(* compound file or from the index; DocConstructors and DocWriters say     *)
(* what the same classes make and write.                                   *)
(***************************************************************************)
EXTENDS TLC

\* Where a child goes: set_<name>, <name>.append, or content_ in a MixedContainer.
Into(place, class, names) == [n \in names |-> [class |-> class, place |-> place]]
One(class, names) == Into("attribute", class, names)
Each(class, names) == Into("list", class, names)
Mixed(class, names) == Into("content", class, names)
Nothing == << >>

\* Text between the elements is ignored, kept in valueOf_, kept in valueOf_ and
\* in content_, or kept in content_ among the children.
Class(text, attrs, children) == [text |-> text, attrs |-> attrs, children |-> children]
Record(attrs, children) == Class("ignored", attrs, children)
Value(attrs) == Class("value", attrs, Nothing)
Text(attrs) == Class("text", attrs, Nothing)
Content(attrs, children) == Class("content", attrs, children)

\* An element without a class: the values of its text nodes in a string.
word == Value({})

-----------------------------------------------------------------------------
(* The index. *)

IndexType == Record({"version"}, Each("CompoundType", {"compound"}))
CompoundType == Record({"kind", "refid"},
  One("word", {"name"}) @@ Each("MemberType", {"member"}))
MemberType == Record({"kind", "refid"}, One("word", {"name"}))

-----------------------------------------------------------------------------
(* A compound file: the compound, its sections and members. *)

DoxygenType == Record({"version"}, One("compounddefType", {"compounddef"}))
compounddefChildren ==
  One("word", {"compoundname"})
  @@ One("docTitleType", {"title"})
  @@ Each("compoundRefType", {"basecompoundref", "derivedcompoundref"})
  @@ Each("incType", {"includes", "includedby"})
  @@ One("graphType", {"incdepgraph", "invincdepgraph", "inheritancegraph", "collaborationgraph"})
  @@ Each("refType", {"innerdir", "innerfile", "innerclass", "innernamespace", "innerpage",
                      "innergroup"})
  @@ One("templateparamlistType", {"templateparamlist"})
  @@ Each("sectiondefType", {"sectiondef"})
  @@ One("descriptionType", {"briefdescription", "detaileddescription"})
  @@ One("listingType", {"programlisting"})
  @@ One("locationType", {"location"})
  @@ One("listofallmembersType", {"listofallmembers"})
compounddefType == Record({"kind", "prot", "id"}, compounddefChildren)
listofallmembersType == Record({}, Each("memberRefType", {"member"}))
memberRefType == Record({"virt", "prot", "refid", "ambiguityscope"}, One("word", {"scope", "name"}))
compoundRefType == Text({"virt", "prot", "refid"})
reimplementType == Text({"refid"})
incType == Text({"local", "refid"})
refType == Text({"prot", "refid"})
sectiondefType == Record({"kind"},
  One("word", {"header"}) @@ One("descriptionType", {"description"})
  @@ Each("memberdefType", {"memberdef"}))
memberdefAttributes ==
  {"initonly", "kind", "volatile", "const", "raise", "virt", "readable", "prot", "explicit", "new",
   "final", "writable", "add", "static", "remove", "sealed", "mutable", "gettable", "inline",
   "settable", "id"}
memberdefChildren ==
  One("templateparamlistType", {"templateparamlist"})
  @@ One("linkedTextType", {"type", "initializer", "exceptions"})
  @@ One("word", {"definition", "argsstring", "name", "read", "write", "bitfield"})
  @@ Each("reimplementType", {"reimplements", "reimplementedby"})
  @@ Each("paramType", {"param"})
  @@ Each("enumvalueType", {"enumvalue"})
  @@ One("descriptionType", {"briefdescription", "detaileddescription", "inbodydescription"})
  @@ One("locationType", {"location"})
  @@ Each("referenceType", {"references", "referencedby"})
memberdefType == Record(memberdefAttributes, memberdefChildren)
enumvalueType == Content({"prot", "id"},
  Mixed("word", {"name"}) @@ Mixed("linkedTextType", {"initializer"})
  @@ Mixed("descriptionType", {"briefdescription", "detaileddescription"}))
templateparamlistType == Record({}, Each("paramType", {"param"}))
paramType == Record({},
  One("linkedTextType", {"type", "defval"}) @@ One("word", {"declname", "defname", "array"})
  @@ One("descriptionType", {"briefdescription"}))
linkedTextType == Content({}, Mixed("docRefTextType", {"ref"}))
referenceType == Text({"endline", "startline", "refid", "compoundref"})
locationType == Value({"bodystart", "line", "bodyend", "bodyfile", "file"})

(* Graphs and listings. *)

graphType == Record({}, Each("nodeType", {"node"}))
nodeType == Record({"id"},
  One("word", {"label"}) @@ One("linkType", {"link"}) @@ Each("childnodeType", {"childnode"}))
childnodeType == Record({"relation", "refid"}, Each("word", {"edgelabel"}))
linkType == Value({"refid", "external"})
listingType == Record({}, Each("codelineType", {"codeline"}))
codelineType == Record({"external", "lineno", "refkind", "refid"}, Each("highlightType", {"highlight"}))
highlightType == Content({"class"}, Mixed("word", {"sp"}) @@ Mixed("docRefTextType", {"ref"}))

(* Descriptions. *)

descriptionType == Content({},
  Mixed("docTitleType", {"title"}) @@ Mixed("docParaType", {"para"})
  @@ Mixed("docSect1Type", {"sect1"}) @@ Mixed("docInternalType", {"internal"}))
docSect1Type == Content({"id"},
  Mixed("docTitleType", {"title"}) @@ Mixed("docParaType", {"para"})
  @@ Mixed("docSect2Type", {"sect2"}) @@ Mixed("docInternalS1Type", {"internal"}))
docSect2Type == Content({"id"},
  Mixed("docTitleType", {"title"}) @@ Mixed("docParaType", {"para"})
  @@ Mixed("docSect3Type", {"sect3"}) @@ Mixed("docInternalS2Type", {"internal"}))
docSect3Type == Content({"id"},
  Mixed("docTitleType", {"title"}) @@ Mixed("docParaType", {"para"})
  @@ Mixed("docSect4Type", {"sect4"}) @@ Mixed("docInternalS3Type", {"internal"}))
docSect4Type == Content({"id"},
  Mixed("docTitleType", {"title"}) @@ Mixed("docParaType", {"para"})
  @@ Mixed("docInternalS4Type", {"internal"}))
docInternalType == Content({}, Mixed("docParaType", {"para"}) @@ Mixed("docSect1Type", {"sect1"}))
docInternalS1Type == Content({}, Mixed("docParaType", {"para"}) @@ Mixed("docSect2Type", {"sect2"}))
docInternalS2Type == Content({}, Mixed("docParaType", {"para"}) @@ Mixed("docSect3Type", {"sect3"}))
docInternalS3Type == Content({}, Mixed("docParaType", {"para"}) @@ Mixed("docSect4Type", {"sect3"}))
docInternalS4Type == Content({}, Mixed("docParaType", {"para"}))
docTitleType == Text({})
docParaType == Text({})
docRefTextType == Text({"refid", "kindref", "external"})
docSimpleSectType == Record({"kind"},
  One("docTitleType", {"title"}) @@ Each("docParaType", {"para"}))
docParamListType == Record({"kind"}, Each("docParamListItem", {"parameteritem"}))
docParamListItem == Record({},
  Each("docParamNameList", {"parameternamelist"})
  @@ One("descriptionType", {"parameterdescription"}))
docParamNameList == Record({}, Each("docParamName", {"parametername"}))
docParamName == Content({"direction"}, Mixed("docRefTextType", {"ref"}))

docParaTypeSub_NoRef == Content({},
  Each("docParamListType", {"parameterlist"}) @@ Each("docSimpleSectType", {"simplesect"}))

\* compound.py puts its own class in place of docParaType's: text and references
\* go to a list content, parameter lists and simple sections to lists of theirs.
docParaTypeSub == Content({},
  Mixed("docRefTextType", {"ref"})
  @@ Each("docParamListType", {"parameterlist"})
  @@ Each("docSimpleSectType", {"simplesect"}))

-----------------------------------------------------------------------------
ClassOf == [
  word |-> word, IndexType |-> IndexType, CompoundType |-> CompoundType, MemberType |-> MemberType,
  DoxygenType |-> DoxygenType, compounddefType |-> compounddefType,
  listofallmembersType |-> listofallmembersType, memberRefType |-> memberRefType,
  compoundRefType |-> compoundRefType, reimplementType |-> reimplementType, incType |-> incType,
  refType |-> refType, sectiondefType |-> sectiondefType, memberdefType |-> memberdefType,
  enumvalueType |-> enumvalueType, templateparamlistType |-> templateparamlistType,
  paramType |-> paramType, linkedTextType |-> linkedTextType, referenceType |-> referenceType,
  locationType |-> locationType, graphType |-> graphType, nodeType |-> nodeType,
  childnodeType |-> childnodeType, linkType |-> linkType, listingType |-> listingType,
  codelineType |-> codelineType, highlightType |-> highlightType,
  descriptionType |-> descriptionType, docSect1Type |-> docSect1Type, docSect2Type |-> docSect2Type,
  docSect3Type |-> docSect3Type, docSect4Type |-> docSect4Type, docInternalType |-> docInternalType,
  docInternalS1Type |-> docInternalS1Type, docInternalS2Type |-> docInternalS2Type,
  docInternalS3Type |-> docInternalS3Type, docInternalS4Type |-> docInternalS4Type,
  docTitleType |-> docTitleType, docParaType |-> docParaType, docRefTextType |-> docRefTextType,
  docSimpleSectType |-> docSimpleSectType, docParamListType |-> docParamListType,
  docParamListItem |-> docParamListItem, docParamNameList |-> docParamNameList,
  docParamName |-> docParamName, docParaTypeSub |-> docParaTypeSub]
=============================================================================
