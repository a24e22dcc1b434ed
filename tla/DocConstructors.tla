--------------------------- MODULE DocConstructors ----------------------------
(***************************************************************************)
(* What the constructors of the classes of DocClasses make: the attributes *)
(* and children that are None at first, and the lists that are empty.      *)
(* Reading what no constructor made and no build has set is an             *)
(* AttributeError.  Each factory gives way to a registered subclass.       *)
(***************************************************************************)
EXTENDS TLC

Makes(attrs, none, lists) == [attrs |-> attrs, none |-> none, lists |-> lists]
MakesContent(attrs) == Makes(attrs, {}, {"content_"})

\* A string.
word_init == Makes({}, {}, {})

-----------------------------------------------------------------------------
(* The index. *)

IndexType_init == Makes({"version"}, {}, {"compound"})
CompoundType_init == Makes({"kind", "refid"}, {"name"}, {"member"})
MemberType_init == Makes({"kind", "refid"}, {"name"}, {})

(* A compound file: the compound, its sections and members. *)

DoxygenType_init == Makes({"version"}, {"compounddef"}, {})
compounddefType_init == Makes(
  {"kind", "prot", "id"},
  {"compoundname", "title", "incdepgraph", "invincdepgraph", "templateparamlist",
   "briefdescription", "detaileddescription", "inheritancegraph", "collaborationgraph",
   "programlisting", "location", "listofallmembers"},
  {"basecompoundref", "derivedcompoundref", "includes", "includedby", "innerdir", "innerfile",
   "innerclass", "innernamespace", "innerpage", "innergroup", "sectiondef"})
listofallmembersType_init == Makes({}, {}, {"member"})
memberRefType_init == Makes({"virt", "prot", "refid", "ambiguityscope"}, {"scope", "name"}, {})
compoundRefType_init == MakesContent({"virt", "prot", "refid"})
reimplementType_init == MakesContent({"refid"})
incType_init == MakesContent({"local", "refid"})
refType_init == MakesContent({"prot", "refid"})
sectiondefType_init == Makes({"kind"}, {"header", "description"}, {"memberdef"})
memberdefType_init == Makes(
  {"initonly", "kind", "volatile", "const", "raise", "virt", "readable", "prot", "explicit", "new",
   "final", "writable", "add", "static", "remove", "sealed", "mutable", "gettable", "inline",
   "settable", "id"},
  {"templateparamlist", "type", "definition", "argsstring", "name", "read", "write", "bitfield",
   "initializer", "exceptions", "briefdescription", "detaileddescription", "inbodydescription",
   "location"},
  {"reimplements", "reimplementedby", "param", "enumvalue", "references", "referencedby"})
enumvalueType_init == MakesContent({"prot", "id"})
templateparamlistType_init == Makes({}, {}, {"param"})
paramType_init == Makes({},
  {"type", "declname", "defname", "array", "defval", "briefdescription"}, {})
linkedTextType_init == MakesContent({})
referenceType_init == MakesContent({"endline", "startline", "refid", "compoundref"})
locationType_init == Makes({"bodystart", "line", "bodyend", "bodyfile", "file"}, {}, {})

(* Graphs and listings. *)

graphType_init == Makes({}, {}, {"node"})
nodeType_init == Makes({"id"}, {"label", "link"}, {"childnode"})
childnodeType_init == Makes({"relation", "refid"}, {}, {"edgelabel"})
linkType_init == Makes({"refid", "external"}, {}, {})
listingType_init == Makes({}, {}, {"codeline"})
codelineType_init == Makes({"external", "lineno", "refkind", "refid"}, {}, {"highlight"})
highlightType_init == MakesContent({"class"})

(* Descriptions. *)

descriptionType_init == MakesContent({})
docSect1Type_init == MakesContent({"id"})
docSect2Type_init == MakesContent({"id"})
docSect3Type_init == MakesContent({"id"})
docSect4Type_init == MakesContent({"id"})
docInternalType_init == MakesContent({})
docInternalS1Type_init == MakesContent({})
docInternalS2Type_init == MakesContent({})
docInternalS3Type_init == MakesContent({})
docInternalS4Type_init == MakesContent({})
docTitleType_init == MakesContent({})
docParaType_init == MakesContent({})
docRefTextType_init == MakesContent({"refid", "kindref", "external"})
docSimpleSectType_init == Makes({"kind"}, {"title"}, {"para"})
docParamListType_init == Makes({"kind"}, {}, {"parameteritem"})
docParamListItem_init == Makes({}, {"parameterdescription"}, {"parameternamelist"})
docParamNameList_init == Makes({}, {}, {"parametername"})
docParamName_init == MakesContent({"direction"})

\* compound.py's class for paragraphs makes lists of its own; its content stands
\* here for content_, which it makes as well.
docParaTypeSub_init ==
  [docParaType_init EXCEPT !.lists = @ \cup {"parameterlist", "simplesect"}]

-----------------------------------------------------------------------------
InitOf == [
  word |-> word_init, IndexType |-> IndexType_init, CompoundType |-> CompoundType_init,
  MemberType |-> MemberType_init, DoxygenType |-> DoxygenType_init,
  compounddefType |-> compounddefType_init, listofallmembersType |-> listofallmembersType_init,
  memberRefType |-> memberRefType_init, compoundRefType |-> compoundRefType_init,
  reimplementType |-> reimplementType_init, incType |-> incType_init, refType |-> refType_init,
  sectiondefType |-> sectiondefType_init, memberdefType |-> memberdefType_init,
  enumvalueType |-> enumvalueType_init, templateparamlistType |-> templateparamlistType_init,
  paramType |-> paramType_init, linkedTextType |-> linkedTextType_init,
  referenceType |-> referenceType_init, locationType |-> locationType_init,
  graphType |-> graphType_init, nodeType |-> nodeType_init, childnodeType |-> childnodeType_init,
  linkType |-> linkType_init, listingType |-> listingType_init, codelineType |-> codelineType_init,
  highlightType |-> highlightType_init, descriptionType |-> descriptionType_init,
  docSect1Type |-> docSect1Type_init, docSect2Type |-> docSect2Type_init,
  docSect3Type |-> docSect3Type_init, docSect4Type |-> docSect4Type_init,
  docInternalType |-> docInternalType_init, docInternalS1Type |-> docInternalS1Type_init,
  docInternalS2Type |-> docInternalS2Type_init, docInternalS3Type |-> docInternalS3Type_init,
  docInternalS4Type |-> docInternalS4Type_init, docTitleType |-> docTitleType_init,
  docParaType |-> docParaType_init, docRefTextType |-> docRefTextType_init,
  docSimpleSectType |-> docSimpleSectType_init, docParamListType |-> docParamListType_init,
  docParamListItem |-> docParamListItem_init, docParamNameList |-> docParamNameList_init,
  docParamName |-> docParamName_init, docParaTypeSub |-> docParaTypeSub_init]
=============================================================================
