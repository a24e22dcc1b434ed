------------------------------ MODULE DocWriters ------------------------------
(***************************************************************************)
(* What the classes of DocClasses write: for each class the attributes of  *)
(* exportAttributes and, in the order of exportChildren, the children,     *)
(* each as a string or by the child's own export.                          *)
(***************************************************************************)
EXTENDS Sequences

Children(as, each, names) ==
  [k \in DOMAIN names |-> [name |-> names[k], as |-> as, each |-> each]]
OneWord(names) == Children("word", FALSE, names)
EachWord(names) == Children("word", TRUE, names)
OneElement(names) == Children("element", FALSE, names)
EachElement(names) == Children("element", TRUE, names)

\* Between its tags a class writes its children, its valueOf_, or its content_.
\* The first two of these write a new line and an indentation there as well, and
\* all leave out the attributes that are None.
Writes(kind, attrs, children) ==
  [writes |-> kind, attrs |-> attrs, asked |-> TRUE, children |-> children]
WritesFields(attrs, children) == Writes("fields", attrs, children)
WritesValue(attrs) == Writes("value", attrs, << >>)
WritesText(attrs) == Writes("text", attrs, << >>)
WritesContent(attrs) == Writes("content", attrs, << >>)

\* Four classes write their attributes unasked.
Unasked(w) == [w EXCEPT !.asked = FALSE]

-----------------------------------------------------------------------------
(* The index. *)

IndexType_export == Unasked(WritesFields({"version"}, EachElement(<<"compound">>)))
CompoundType_export == Unasked(WritesFields({"kind", "refid"},
  OneWord(<<"name">>) \o EachElement(<<"member">>)))
MemberType_export == Unasked(WritesFields({"kind", "refid"}, OneWord(<<"name">>)))

(* A compound file: the compound, its sections and members. *)

DoxygenType_export == Unasked(WritesFields({"version"}, OneElement(<<"compounddef">>)))
compounddefType_export == WritesFields({"kind", "prot", "id"},
  OneWord(<<"compoundname", "title">>)
  \o EachElement(<<"basecompoundref", "derivedcompoundref", "includes", "includedby">>)
  \o OneElement(<<"incdepgraph", "invincdepgraph">>)
  \o EachElement(<<"innerdir", "innerfile", "innerclass", "innernamespace", "innerpage",
                   "innergroup">>)
  \o OneElement(<<"templateparamlist">>)
  \o EachElement(<<"sectiondef">>)
  \o OneElement(<<"briefdescription", "detaileddescription", "inheritancegraph",
                  "collaborationgraph", "programlisting", "location", "listofallmembers">>))
listofallmembersType_export == WritesFields({}, EachElement(<<"member">>))
memberRefType_export == WritesFields({"virt", "prot", "refid", "ambiguityscope"},
  OneWord(<<"scope", "name">>))
compoundRefType_export == WritesText({"virt", "prot", "refid"})
reimplementType_export == WritesText({"refid"})
incType_export == WritesText({"local", "refid"})
refType_export == WritesText({"prot", "refid"})
sectiondefType_export == WritesFields({"kind"},
  OneWord(<<"header">>) \o OneElement(<<"description">>) \o EachElement(<<"memberdef">>))
memberdefType_export == WritesFields(
  {"initonly", "kind", "volatile", "const", "raise", "virt", "readable", "prot", "explicit", "new",
   "final", "writable", "add", "static", "remove", "sealed", "mutable", "gettable", "inline",
   "settable", "id"},
  OneElement(<<"templateparamlist", "type">>)
  \o OneWord(<<"definition", "argsstring", "name", "read", "write", "bitfield">>)
  \o EachElement(<<"reimplements", "reimplementedby", "param", "enumvalue">>)
  \o OneElement(<<"initializer", "exceptions", "briefdescription", "detaileddescription",
                  "inbodydescription", "location">>)
  \o EachElement(<<"references", "referencedby">>))
enumvalueType_export == WritesContent({"prot", "id"})
templateparamlistType_export == WritesFields({}, EachElement(<<"param">>))
paramType_export == WritesFields({},
  OneElement(<<"type">>) \o OneWord(<<"declname", "defname", "array">>)
  \o OneElement(<<"defval", "briefdescription">>))
linkedTextType_export == WritesContent({})
referenceType_export == WritesText({"endline", "startline", "refid", "compoundref"})
locationType_export == WritesValue({"bodystart", "line", "bodyend", "bodyfile", "file"})

(* Graphs and listings. *)

graphType_export == WritesFields({}, EachElement(<<"node">>))
nodeType_export == WritesFields({"id"},
  OneWord(<<"label">>) \o OneElement(<<"link">>) \o EachElement(<<"childnode">>))
childnodeType_export == WritesFields({"relation", "refid"}, EachWord(<<"edgelabel">>))
linkType_export == WritesValue({"refid", "external"})
listingType_export == WritesFields({}, EachElement(<<"codeline">>))
codelineType_export == WritesFields({"external", "lineno", "refkind", "refid"},
  EachElement(<<"highlight">>))
highlightType_export == WritesContent({"class"})

(* Descriptions. *)

descriptionType_export == WritesContent({})
docSect1Type_export == WritesContent({"id"})
docSect2Type_export == WritesContent({"id"})
docSect3Type_export == WritesContent({"id"})
docSect4Type_export == WritesContent({"id"})
docInternalType_export == WritesContent({})
docInternalS1Type_export == WritesContent({})
docInternalS2Type_export == WritesContent({})
docInternalS3Type_export == WritesContent({})
docInternalS4Type_export == WritesContent({})
docTitleType_export == WritesText({})
docParaType_export == WritesText({})
docRefTextType_export == WritesText({"refid", "kindref", "external"})
docSimpleSectType_export == WritesFields({"kind"},
  OneElement(<<"title">>) \o EachElement(<<"para">>))
docParamListType_export == WritesFields({"kind"}, EachElement(<<"parameteritem">>))
docParamListItem_export == WritesFields({},
  EachElement(<<"parameternamelist">>) \o OneElement(<<"parameterdescription">>))
docParamNameList_export == WritesFields({}, EachElement(<<"parametername">>))
docParamName_export == WritesContent({"direction"})

-----------------------------------------------------------------------------
ExportOf == [
  IndexType |-> IndexType_export, CompoundType |-> CompoundType_export,
  MemberType |-> MemberType_export, DoxygenType |-> DoxygenType_export,
  compounddefType |-> compounddefType_export, listofallmembersType |-> listofallmembersType_export,
  memberRefType |-> memberRefType_export, compoundRefType |-> compoundRefType_export,
  reimplementType |-> reimplementType_export, incType |-> incType_export,
  refType |-> refType_export, sectiondefType |-> sectiondefType_export,
  memberdefType |-> memberdefType_export, enumvalueType |-> enumvalueType_export,
  templateparamlistType |-> templateparamlistType_export, paramType |-> paramType_export,
  linkedTextType |-> linkedTextType_export, referenceType |-> referenceType_export,
  locationType |-> locationType_export, graphType |-> graphType_export,
  nodeType |-> nodeType_export, childnodeType |-> childnodeType_export,
  linkType |-> linkType_export, listingType |-> listingType_export,
  codelineType |-> codelineType_export, highlightType |-> highlightType_export,
  descriptionType |-> descriptionType_export, docSect1Type |-> docSect1Type_export,
  docSect2Type |-> docSect2Type_export, docSect3Type |-> docSect3Type_export,
  docSect4Type |-> docSect4Type_export, docInternalType |-> docInternalType_export,
  docInternalS1Type |-> docInternalS1Type_export, docInternalS2Type |-> docInternalS2Type_export,
  docInternalS3Type |-> docInternalS3Type_export, docInternalS4Type |-> docInternalS4Type_export,
  docTitleType |-> docTitleType_export, docParaType |-> docParaType_export,
  docRefTextType |-> docRefTextType_export, docSimpleSectType |-> docSimpleSectType_export,
  docParamListType |-> docParamListType_export, docParamListItem |-> docParamListItem_export,
  docParamNameList |-> docParamNameList_export, docParamName |-> docParamName_export]
=============================================================================
