---------------------------- MODULE CompoundFile ----------------------------
(***************************************************************************)
(* The reader of doxygen's XML files: build and buildChildren, which turn  *)
(* a document into objects, one event of the document at a time; export,   *)
(* which writes the objects out again (compoundsuper.py as a program); and *)
(* what doxyxml takes from them, descriptions (text.py) and documented     *)
(* parameters (doxyindex.py).                                              *)
(*                                                                         *)
(* Words and values of attributes are abstract.  The text of a node is a   *)
(* sequence of pieces, each known by its place in the document and by its  *)
(* characters: plain ones, some that XML must quote (markup), some outside *)
(* ASCII (foreign), or the white space export writes between elements.     *)
(* The documents read have no white space of their own, and the values of  *)
(* their attributes are plain.                                             *)
(***************************************************************************)
EXTENDS DocClasses, DocConstructors, DocWriters, Integers, SequencesExt

CONSTANTS
  Roots, MaxElements, MaxTexts,          \* shallow documents, any element
  DeepRoots, DeepNames, MaxDeepElements, MaxDeepTexts   \* deep ones, some elements

VARIABLES
  subclassed,   \* compound.py was imported: supermod.<class>.subclass is set
  deep,         \* which of the two bounds the document is read under
  document,     \* the events read so far
  stack         \* the calls of build under way: element name and object

vars == <<subclassed, deep, document, stack>>

-----------------------------------------------------------------------------
(* Objects. *)

\* factory: a class gives way to its subclass.
Factory(class, subbed) == IF subbed /\ class = "docParaType" THEN "docParaTypeSub" ELSE class

\* A new object: the constructor's fields, holding nothing, and the attributes
\* build has found.
New(class, attrs) ==
  [class |-> class, attrs |-> attrs, text |-> << >>,
   fields |-> [n \in InitOf[class].none \cup InitOf[class].lists |-> << >>]]

\* The children of a name that an object holds.  A setter makes a field the
\* constructor has not made, append does not.
Held(o, name) == IF name \in DOMAIN o.fields THEN o.fields[name] ELSE << >>
Set(o, name, child) == [o EXCEPT !.fields = (name :> <<child>>) @@ @]
AddTo(o, name, child) == [o EXCEPT !.fields[name] = Append(o.fields[name], child)]

\* A text in content_ is a MixedContainer without a name.
TextItem(t) == [name |-> "", value |-> [New("word", {}) EXCEPT !.text = t]]

\* What buildChildren does with a text.
AddText(o, t) ==
  LET value == [o EXCEPT !.text = @ \o t]
  IN  CASE ClassOf[o.class].text = "ignored" -> o
        [] ClassOf[o.class].text = "content" -> AddTo(o, "content_", TextItem(t))
        [] ClassOf[o.class].text = "value"   -> value
        [] ClassOf[o.class].text = "text"    -> AddTo(value, "content_", TextItem(t))

\* What buildChildren does with a child, after the child's own build.
Place(o, name) ==
  IF name \in DOMAIN ClassOf[o.class].children THEN ClassOf[o.class].children[name].place ELSE "none"
AddChild(o, name, child) ==
  CASE Place(o, name) = "content" ->
         AddTo(o, "content_", [name |-> name, value |-> child])
    [] Place(o, name) = "list" -> AddTo(o, name, child)
    [] Place(o, name) = "attribute" -> Set(o, name, child)
    [] OTHER -> o

-----------------------------------------------------------------------------
(* Reading. *)

Open(name, attrs) == [do |-> "open", name |-> name, attrs |-> attrs]
Chars(t) == [do |-> "text", text |-> t]
Close == [do |-> "close"]

\* The element on top of the stack is read by a branch of buildChildren.
Known(s, name) == name \in DOMAIN ClassOf[Last(s).object.class].children
ChildClass(s, name, subbed) ==
  Factory(ClassOf[Last(s).object.class].children[name].class, subbed)

\* One event: build is called, appends a text, or returns to its caller.  An
\* element without a branch is passed over with all that is in it.
Step(s, e, subbed) ==
  CASE e.do = "open" ->
         Append(s, [name |-> e.name, object |->
           IF Known(s, e.name)
           THEN LET c == ChildClass(s, e.name, subbed)
                IN  New(c, e.attrs \cap ClassOf[c].attrs)
           ELSE New("word", {})])
    [] e.do = "text" -> [s EXCEPT ![Len(s)].object = AddText(@, e.text)]
    [] e.do = "close" ->
         [Front(s) EXCEPT ![Len(s) - 1].object = AddChild(@, Last(s).name, Last(s).object)]

Read(e) ==
  /\ document' = Append(document, e)
  /\ stack' = Step(stack, e, subclassed)
  /\ UNCHANGED <<subclassed, deep>>

-----------------------------------------------------------------------------
(* The documents: what doxygen's schema allows, within bounds. *)

Count(kind) == Len(SelectSeq(document, LAMBDA e : e.do = kind))

\* Strings have no elements, what is passed over is of no interest, and a child
\* that is set, not appended, comes once.
Allowed(name) ==
  LET o == Last(stack).object
  IN  /\ o.class # "word"
      /\ Place(o, name) # "attribute" \/ Held(o, name) = << >>
      /\ deep => name \in DeepNames

\* The elements a branch reads, those of a paragraph whether or not there is
\* one, and any other.
ParaElements == {"ref", "parameterlist", "simplesect"}
Names ==
  LET class == Last(stack).object.class
  IN  DOMAIN ClassOf[class].children \cup {"other"}
        \cup IF class \in {"docParaType", "docParaTypeSub"} THEN ParaElements ELSE {}

\* Some attributes are always there: export writes them unasked.
Required(class) == class \in DOMAIN ExportOf /\ ~ExportOf[class].asked
Attributes(class) ==
  IF deep THEN {{}} ELSE {ClassOf[class].attrs} \cup IF Required(class) THEN {} ELSE {{}}
ElementAttributes(name) ==
  IF Known(stack, name) THEN Attributes(ChildClass(stack, name, subclassed)) ELSE {{}}

ReadElement ==
  /\ Count("open") < IF deep THEN MaxDeepElements ELSE MaxElements
  /\ \E name \in {n \in Names : Allowed(n)} :
     \E attrs \in ElementAttributes(name) : Read(Open(name, attrs))

ReadText ==
  /\ Count("text") < IF deep THEN MaxDeepTexts ELSE MaxTexts
  /\ deep => ClassOf[Last(stack).object.class].text # "ignored"
  /\ document # << >> => Last(document).do # "text"
  /\ \E kind \in IF deep THEN {"plain"} ELSE {"plain", "markup", "foreign"} :
       Read(Chars(<<[at |-> Count("text") + 1, kind |-> kind]>>))

ReadEnd == Len(stack) > 1 /\ Read(Close)

Init ==
  /\ subclassed \in BOOLEAN /\ deep \in {FALSE, subclassed}
  /\ document = << >>
  /\ \E class \in IF deep THEN DeepRoots ELSE Roots :
     \E attrs \in Attributes(class) :
       stack = <<[name |-> "", object |-> New(Factory(class, subclassed), attrs)]>>

Next == ReadElement \/ ReadText \/ ReadEnd

Spec == Init /\ [][Next]_vars

Root == stack[1].object
Complete == Len(stack) = 1

-----------------------------------------------------------------------------
(* Writing: export, exportAttributes, exportChildren. *)

\* The new lines and the indentation before, between and behind elements.
Gap == Chars(<<[at |-> 0, kind |-> "white"]>>)

\* What MixedContainer writes itself, a text or a string in content_, is written
\* as it is; texts in valueOf_ and strings in fields go through quote_xml.
Raw(text) ==
  IF \E k \in DOMAIN text : text[k].kind = "markup" THEN << [do |-> "malformed"] >>
  ELSE <<Chars(text)>>

\* Strings in fields are encoded as well, and ExternalEncoding is ASCII.
Encoded(text) ==
  IF \E k \in DOMAIN text : text[k].kind = "foreign" THEN << [do |-> "UnicodeEncodeError"] >>
  ELSE <<Chars(text)>>

\* An attribute or a child is read that the constructor has not made, or a list
\* is read as one child or one child as a list: the program ends.
Unmade(o) ==
  LET made == InitOf[o.class]
      w    == ExportOf[o.class]
      read == CASE w.writes = "fields"  -> w.children
                [] w.writes = "content" -> Children("item", TRUE, <<"content_">>)
                [] OTHER                -> << >>
  IN  \/ ~(w.attrs \subseteq made.attrs)
      \/ \E k \in DOMAIN read :
           read[k].name \notin IF read[k].each THEN made.lists ELSE made.none

WrittenAttributes(o) ==
  LET w == ExportOf[o.class] IN IF w.asked THEN w.attrs \cap o.attrs ELSE w.attrs

RECURSIVE Export(_)
Element(name, o) == <<Gap, Open(name, WrittenAttributes(o))>> \o Export(o) \o <<Close, Gap>>
Word(name, text) == <<Open(name, {})>> \o text \o <<Close>>

\* A child as exportChildren writes it.  An object written as a string gives its
\* representation, and a string has no export.
Child(c, o) ==
  CASE c.as = "word" /\ o.class = "word"    -> <<Gap>> \o Word(c.name, Encoded(o.text)) \o <<Gap>>
    [] c.as = "word" /\ o.class # "word"    -> << [do |-> "repr"] >>
    [] c.as = "element" /\ o.class # "word" -> Element(c.name, o)
    [] c.as = "element" /\ o.class = "word" -> << [do |-> "AttributeError"] >>
Field_First(o, c) == IF Held(o, c.name) = << >> THEN << >> ELSE Child(c, o.fields[c.name][1])
Field(o, c) == FlattenSeq([k \in DOMAIN o.fields[c.name] |-> Child(c, o.fields[c.name][k])])
Fields(o) ==
  LET children == ExportOf[o.class].children
  IN  FlattenSeq([k \in DOMAIN children |-> Field(o, children[k])])
Item(i) ==
  IF i.name = "" THEN Raw(i.value.text)
  ELSE IF i.value.class = "word" THEN Word(i.name, Raw(i.value.text))
  ELSE Element(i.name, i.value)

\* hasContent_: some child is not None, and a list never is.
HasContent(o) ==
  \E k \in DOMAIN ExportOf[o.class].children :
    LET c == ExportOf[o.class].children[k] IN c.each \/ Held(o, c.name) # << >>

\* A class with a text or a mixed content writes nothing but that between its
\* tags, the others a new line first and an indentation last, if they have a
\* content at all (an empty valueOf_ is one).
Export(o) ==
  LET kind == ExportOf[o.class].writes
  IN  CASE Unmade(o) -> << [do |-> "AttributeError"] >>
        [] ~Unmade(o) /\ kind = "content" ->
             FlattenSeq([k \in DOMAIN o.fields["content_"] |-> Item(o.fields["content_"][k])])
        [] ~Unmade(o) /\ kind = "text" -> <<Chars(o.text)>>
        [] ~Unmade(o) /\ kind = "value" -> <<Gap, Chars(o.text), Gap>>
        [] ~Unmade(o) /\ kind = "fields" ->
             IF HasContent(o) THEN <<Gap>> \o Fields(o) \o <<Gap>> ELSE << >>

\* The written file, read again: what stands between two tags is one text.
Joined(events) ==
  FoldLeft(LAMBDA done, e :
      IF e.do = "text" /\ done # << >> /\ Last(done).do = "text"
      THEN Append(Front(done), Chars(Last(done).text \o e.text))
      ELSE Append(done, e),
    << >>, SelectSeq(events, LAMBDA e : e.do = "text" => e.text # << >>))
Rebuilt(events, root) ==
  FoldLeft(LAMBDA s, e : Step(s, e, FALSE),
           <<[name |-> "", object |->
              New(root.class, WrittenAttributes(root) \cap ClassOf[root.class].attrs)]>>,
           Joined(events))

-----------------------------------------------------------------------------
(* Descriptions: text.py. *)

Break == 0
Error == -1

Places(text) == [k \in DOMAIN text |-> text[k].at]

\* description_bit: what an object says, a line break behind each paragraph.
\* An object that is no string and has neither content, content_ nor value raises
\* an error.
RECURSIVE Description(_)
Description(o) ==
  CASE o.class = "word" -> Places(o.text)
    [] "content_" \in DOMAIN o.fields ->
         FlattenSeq([k \in DOMAIN o.fields["content_"] |->
           LET item == o.fields["content_"][k]
           IN  Description(item.value) \o IF item.name = "para" THEN <<Break>> ELSE << >>])
    [] OTHER -> <<Error>>

\* set_parameters: the parameter lists in the paragraphs of a description.
All(objects, field) == FlattenSeq([k \in DOMAIN objects |-> Held(objects[k], field)])
Paragraphs(detailed) ==
  SelectSeq([k \in DOMAIN Held(detailed, "content_") |-> Held(detailed, "content_")[k].value],
            LAMBDA v : v.class = "docParaTypeSub")
ParamLists_LastParagraph(detailed) ==
  IF Paragraphs(detailed) = << >> THEN << >>
  ELSE Held(Last(Paragraphs(detailed)), "parameterlist")
ParamLists(detailed) == All(Paragraphs(detailed), "parameterlist")

\* DoxyParameterItem._parse: the first name and the description of an item.
FirstName(item) ==
  LET names == All(Held(item, "parameternamelist"), "parametername")
  IN  IF names = << >> THEN <<Error>> ELSE Description(names[1])
Told(item) ==
  IF Held(item, "parameterdescription") = << >> THEN << >>
  ELSE Description(Held(item, "parameterdescription")[1])
Params(detailed) ==
  LET items == All(ParamLists(detailed), "parameteritem")
  IN  [k \in DOMAIN items |-> [name |-> FirstName(items[k]), description |-> Told(items[k])]]

-----------------------------------------------------------------------------
(* Properties. *)

\* What the document says below a path, told from its events alone: the texts
\* outside elements that are passed over, parameter lists and simple sections,
\* and a break for each element of a given name that ends.
Aside == {"other", "parameterlist", "simplesect"}
Within(path, prefix) ==
  IsPrefix(prefix, path) /\ \A k \in (Len(prefix) + 1)..Len(path) : path[k] \notin Aside
Said(prefix, mark) ==
  LET Follow(acc, e) ==
        CASE e.do = "open" -> [acc EXCEPT !.path = Append(@, e.name)]
          [] e.do = "text" ->
               [acc EXCEPT !.said = @ \o IF Within(acc.path, prefix) THEN Places(e.text) ELSE << >>]
          [] e.do = "close" ->
               [path |-> Front(acc.path),
                said |-> acc.said \o
                  IF Last(acc.path) = mark /\ Within(Front(acc.path), prefix)
                  THEN <<Break>> ELSE << >>]
  IN  FoldLeft(Follow, [path |-> << >>, said |-> << >>], document).said

Described ==
  {n \in {"briefdescription", "detaileddescription"} : Held(Root, n) # << >>}

\* A description says each text of the document once, in the order of the
\* document and with its paragraphs apart, although its parts were collected by
\* objects of different classes; and description never meets an object it
\* cannot handle.  What is left out is what stands in elements without a class
\* and in parameter lists and simple sections.  (description_bit, text.py:40)
DescriptionComplete ==
  Complete /\ subclassed =>
    /\ ClassOf[Root.class].text \in {"content", "text"} => Description(Root) = Said(<< >>, "para")
    /\ \A n \in Described : Description(Root.fields[n][1]) = Said(<<n>>, "para")

\* set_parameters finds every parameter documented in a paragraph of the
\* detailed description, in order, with its whole description, and takes no
\* parameter of a list that is elsewhere.  (set_parameters, doxyindex.py:86)
ListPath == <<"para", "parameterlist">>
ItemPath == Append(ListPath, "parameteritem")
ParamsComplete ==
  Complete /\ subclassed /\ Root.class = "descriptionType" =>
    LET params == Params(Root)
        names  == Said(ItemPath \o <<"parameternamelist", "parametername">>, "none")
    IN  /\ Len(params) = Len(SelectSeq(Said(ListPath, "parameteritem"), LAMBDA t : t = Break))
        /\ FlattenSeq([k \in DOMAIN params |-> params[k].description])
             = Said(Append(ItemPath, "parameterdescription"), "para")
        /\ \A k \in DOMAIN params :
             params[k].name # <<Error>> => ToSet(params[k].name) \subseteq ToSet(names)

\* An object without white space and with the texts of its content_ joined.
Visible(text) == SelectSeq(text, LAMBDA t : t.kind # "white")
RECURSIVE Essence(_)
Essence(o) ==
  LET Join(items, i) ==
        IF i.name # "" THEN Append(items, [i EXCEPT !.value = Essence(@)])
        ELSE IF Visible(i.value.text) = << >> THEN items
        ELSE IF items = << >> \/ Last(items).name # ""
        THEN Append(items, TextItem(Visible(i.value.text)))
        ELSE Append(Front(items), TextItem(Last(items).value.text \o Visible(i.value.text)))
  IN  [o EXCEPT !.text = Visible(@),
                !.fields = [n \in DOMAIN @ |->
                  IF n = "content_" THEN FoldLeft(Join, << >>, @[n])
                  ELSE [k \in DOMAIN @[n] |-> Essence(@[n][k])]]]

\* Run as a program, compoundsuper writes a file that reads back as the same
\* objects with the same texts in the same places, but for white space: the
\* indentation it writes around the elements of a mixed content comes back as
\* texts of that content, and texts around an element that was passed over come
\* back as one.  What it cannot write it spoils: a compound's title is written as
\* the representation of an object, a text that must be quoted is written raw in
\* a mixed content, and a name outside ASCII ends the program.
\* (parse, compoundsuper.py:8290; MixedContainer.export, compoundsuper.py:133)
Spoiled == {"repr", "malformed", "UnicodeEncodeError"}
RoundTrip ==
  LET events == Export(Root)
  IN  Complete /\ ~subclassed /\ (\A k \in DOMAIN events : events[k].do \notin Spoiled)
      => /\ \A k \in DOMAIN events : events[k].do # "AttributeError"
         /\ LET again == Rebuilt(events, Root)
            IN  Len(again) = 1 /\ Essence(again[1].object) = Essence(Root)
=============================================================================
