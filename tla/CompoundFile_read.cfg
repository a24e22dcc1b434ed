SPECIFICATION Spec
CONSTANTS
  Roots = {"IndexType", "CompoundType", "MemberType", "DoxygenType", "compounddefType", "listofallmembersType", "memberRefType", "compoundRefType", "reimplementType", "incType", "refType", "sectiondefType", "memberdefType", "enumvalueType", "templateparamlistType", "paramType", "linkedTextType", "referenceType", "locationType", "graphType", "nodeType", "childnodeType", "linkType", "listingType", "codelineType", "highlightType", "descriptionType", "docSect1Type", "docSect2Type", "docSect3Type", "docSect4Type", "docInternalType", "docInternalS1Type", "docInternalS2Type", "docInternalS3Type", "docInternalS4Type", "docTitleType", "docParaType", "docRefTextType", "docSimpleSectType", "docParamListType", "docParamListItem", "docParamNameList", "docParamName"}
  MaxElements = 2
  MaxTexts = 2
  DeepRoots = {"descriptionType"}
  DeepNames = {"para", "parameterlist", "parameteritem", "parameternamelist", "parametername", "parameterdescription"}
  MaxDeepElements = 8
  MaxDeepTexts = 2
INVARIANTS DescriptionComplete ParamsComplete RoundTrip
CHECK_DEADLOCK FALSE
