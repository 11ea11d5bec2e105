---------------------------- MODULE Preview_proofs ----------------------------
(***************************************************************************)
(* Theorems about the documents and the popovers, for any number of links  *)
(* and requests.                                                           *)
(***************************************************************************)
EXTENDS Preview, WellFoundedInduction, TLAPS

-----------------------------------------------------------------------------
(***************************************************************************)
(* What parsePreview makes of a compact document of any shape: the search  *)
(* for a child in a list of nodes is the search in its parts.              *)
(***************************************************************************)
LEMMA FirstIs ==
  ASSUME NEW nodes, NEW positions \in SUBSET Nat, NEW n \in positions,
         \A i \in positions : n <= i
  PROVE  First(nodes, positions) = nodes[n]
<1>. DEFINE Least(i) == i \in positions /\ \A j \in positions : i <= j
<1>1. Least(n)
  OBVIOUS
<1>2. \A i \in Nat : Least(i) => i = n
  BY <1>1
<1>3. (CHOOSE i \in positions : \A j \in positions : i <= j) = n
  BY <1>1, <1>2
<1>. QED
  BY <1>3 DEF First

(* A set of numbers has a least one.                                       *)
LEMMA HasLeast ==
  ASSUME NEW S \in SUBSET Nat, S # {}
  PROVE  \E n \in S : \A i \in S : n <= i
<1>. DEFINE R == OpToRel(<, Nat)
<1>1. IsWellFoundedOn(R, Nat)
  BY NatLessThanWellFounded
<1>2. PICK n \in S : \A i \in S : ~(<<i, n>> \in R)
  BY <1>1, WFMin
<1>3. \A i \in S : ~(i < n)
  BY <1>2 DEF OpToRel
<1>. QED
  BY <1>3

(* What FirstChildNamed finds in a list of nodes.                          *)
Find(nodes, name) == First(nodes, Named(nodes, name))

LEMMA FindInNone == ASSUME NEW name PROVE Find(<< >>, name) = Undefined
BY DEF Find, First, Named, Elements

(* A list of white space and an element holds that element.                *)
LEMMA FindInPart ==
  ASSUME NEW name, NEW other, NEW value, NEW children
  PROVE  Find(<<Text, Element(other, children, value)>>, name)
           = IF other = name THEN Element(other, children, value) ELSE Undefined
<1>. DEFINE nodes == <<Text, Element(other, children, value)>>
<1>1. Named(nodes, name) = IF other = name THEN {2} ELSE {}
  BY DEF Named, Elements, Text, Element
<1>. QED
  BY <1>1, FirstIs DEF First, Find

(* It is missing if and only if no element has the name.                   *)
LEMMA Found ==
  ASSUME NEW S, NEW s \in Seq(S), NEW name
  PROVE  /\ IsMissing(Find(s, name)) <=> Named(s, name) = {}
         /\ Named(s, name) = {} => Find(s, name) = Undefined
<1>1. Named(s, name) \in SUBSET Nat
  BY DEF Named, Elements
<1>2. ASSUME Named(s, name) # {} PROVE ~IsMissing(Find(s, name))
  <2>1. PICK n \in Named(s, name) : \A i \in Named(s, name) : n <= i
    BY <1>1, <1>2, HasLeast
  <2>2. Find(s, name) = s[n]
    BY <1>1, <2>1, FirstIs DEF Find
  <2>3. s[n].nodeType = "element"
    BY <2>1 DEF Named, Elements
  <2>. QED
    BY <2>2, <2>3 DEF IsMissing
<1>3. Named(s, name) = {} => Find(s, name) = Undefined
  BY DEF Find, First
<1>4. IsMissing(Undefined)
  BY DEF IsMissing, Undefined
<1>. QED
  BY <1>2, <1>3, <1>4

(* What is not found in the first list is searched in the second.          *)
LEMMA FindInBoth ==
  ASSUME NEW S, NEW s \in Seq(S), NEW t \in Seq(S), NEW name
  PROVE  Find(s \o t, name) = IF IsMissing(Find(s, name)) THEN Find(t, name) ELSE Find(s, name)
<1>. DEFINE both == s \o t
<1>1. /\ Len(s) \in Nat /\ Len(t) \in Nat
      /\ DOMAIN s = 1..Len(s) /\ DOMAIN t = 1..Len(t) /\ DOMAIN both = 1..(Len(s) + Len(t))
      /\ \A i \in 1..Len(s) : both[i] = s[i]
      /\ \A i \in 1..Len(t) : both[i + Len(s)] = t[i]
  OBVIOUS
<1>2. Named(s, name) \subseteq 1..Len(s) /\ Named(t, name) \subseteq 1..Len(t)
  BY <1>1 DEF Named, Elements
<1>3. Named(both, name) = Named(s, name) \cup {i + Len(s) : i \in Named(t, name)}
  <2>. HIDE DEF both
  <2>1. \A i \in 1..Len(s) : i \in Named(both, name) <=> i \in Named(s, name)
    BY <1>1 DEF Named, Elements
  <2>2. \A i \in 1..Len(t) : i + Len(s) \in Named(both, name) <=> i \in Named(t, name)
    BY <1>1 DEF Named, Elements
  <2>3. ASSUME NEW i \in Named(both, name)
        PROVE  i \in 1..Len(s) \/ \E j \in 1..Len(t) : i = j + Len(s)
    <3>1. i \in 1..(Len(s) + Len(t))
      BY <1>1 DEF Named, Elements
    <3>2. CASE i > Len(s)
      <4>1. i - Len(s) \in 1..Len(t) /\ i = (i - Len(s)) + Len(s)
        BY <1>1, <3>1, <3>2
      <4>. QED
        BY <4>1
    <3>. QED
      BY <1>1, <3>1, <3>2
  <2>. QED
    BY <1>2, <2>1, <2>2, <2>3
<1>. HIDE DEF both
<1>4. CASE Named(s, name) # {}
  <2>1. PICK n \in Named(s, name) : \A i \in Named(s, name) : n <= i
    BY <1>1, <1>2, <1>4, HasLeast
  <2>2. Find(s, name) = s[n]
    BY <1>2, <2>1, FirstIs DEF Find
  <2>3. n \in Named(both, name) /\ \A i \in Named(both, name) : n <= i
    BY <1>1, <1>2, <1>3, <2>1
  <2>4. Find(both, name) = both[n]
    <3>1. Named(both, name) \in SUBSET Nat
      BY <1>1, <1>2, <1>3
    <3>. QED
      BY <2>3, <3>1, FirstIs DEF Find
  <2>. QED
    <3>1. ~IsMissing(Find(s, name))
      BY <1>4, Found
    <3>2. n \in 1..Len(s)
      BY <1>2
    <3>. QED
      BY <1>1, <2>2, <2>4, <3>1, <3>2 DEF both
<1>5. CASE Named(s, name) = {} /\ Named(t, name) # {}
  <2>1. PICK n \in Named(t, name) : \A i \in Named(t, name) : n <= i
    <3>1. Named(t, name) \in SUBSET Nat
      BY <1>1, <1>2
    <3>. QED
      BY <1>5, <3>1, HasLeast
  <2>2. Find(t, name) = t[n]
    BY <1>2, <2>1, FirstIs DEF Find
  <2>3. n + Len(s) \in Named(both, name) /\ \A i \in Named(both, name) : n + Len(s) <= i
    BY <1>1, <1>2, <1>3, <1>5, <2>1
  <2>4. Find(both, name) = both[n + Len(s)]
    <3>1. Named(both, name) \in SUBSET Nat
      BY <1>1, <1>2, <1>3
    <3>. QED
      BY <2>3, <3>1, FirstIs DEF Find
  <2>. QED
    <3>1. IsMissing(Find(s, name))
      BY <1>5, Found
    <3>2. n \in 1..Len(t)
      BY <1>2
    <3>. QED
      BY <1>1, <2>2, <2>4, <3>1, <3>2 DEF both
<1>6. CASE Named(s, name) = {} /\ Named(t, name) = {}
  BY <1>3, <1>6 DEF Find, First, both
<1>. QED
  BY <1>4, <1>5, <1>6, Found DEF both

(* The children of a preview: each part it has.                            *)
LEMMA FindPart ==
  ASSUME NEW parts, NEW link, NEW height
  PROVE  /\ Find(PartsOf(parts, link, height), "oslc:document")
              = IF "oslc:document" \in parts THEN Element("oslc:document", << >>, link) ELSE Undefined
         /\ Find(PartsOf(parts, link, height), "oslc:hintHeight")
              = IF "oslc:hintHeight" \in parts THEN Element("oslc:hintHeight", << >>, height) ELSE Undefined
         /\ Find(PartsOf(parts, link, height), "oslc:hintWidth")
              = IF "oslc:hintWidth" \in parts THEN Element("oslc:hintWidth", << >>, "45em") ELSE Undefined
<1>. DEFINE d == Element("oslc:document", << >>, link)
            h == Element("oslc:hintHeight", << >>, height)
            w == Element("oslc:hintWidth", << >>, "45em")
            S == {Text, d, h, w}
            D == IF "oslc:document" \in parts THEN <<Text, d>> ELSE << >>
            H == IF "oslc:hintHeight" \in parts THEN <<Text, h>> ELSE << >>
            W == IF "oslc:hintWidth" \in parts THEN <<Text, w>> ELSE << >>
<1>1. PartsOf(parts, link, height) = (D \o H) \o W
  BY DEF PartsOf, Part
<1>2. ASSUME NEW name \in Parts
      PROVE  /\ Find(D, name) = IF "oslc:document" \in parts /\ name = "oslc:document" THEN d ELSE Undefined
             /\ Find(H, name) = IF "oslc:hintHeight" \in parts /\ name = "oslc:hintHeight" THEN h ELSE Undefined
             /\ Find(W, name) = IF "oslc:hintWidth" \in parts /\ name = "oslc:hintWidth" THEN w ELSE Undefined
  BY FindInPart, FindInNone
<1>3. ~IsMissing(d) /\ ~IsMissing(h) /\ ~IsMissing(w) /\ IsMissing(Undefined)
  BY DEF IsMissing, Element, Undefined
<1>. HIDE DEF d, h, w
<1>4. D \in Seq(S) /\ H \in Seq(S) /\ W \in Seq(S)
  <2>1. /\ <<Text, d>> \in Seq(S) /\ <<Text, h>> \in Seq(S) /\ <<Text, w>> \in Seq(S)
        /\ << >> \in Seq(S)
    OBVIOUS
  <2>. HIDE DEF S
  <2>2. D \in Seq(S)
    BY <2>1
  <2>3. H \in Seq(S)
    BY <2>1
  <2>4. W \in Seq(S)
    BY <2>1
  <2>. QED
    BY <2>2, <2>3, <2>4
<1>. HIDE DEF D, H, W, S
<1>5. ASSUME NEW name \in Parts
      PROVE  Find((D \o H) \o W, name)
               = IF ~IsMissing(Find(D, name)) THEN Find(D, name)
                 ELSE IF ~IsMissing(Find(H, name)) THEN Find(H, name) ELSE Find(W, name)
  <2>1. D \o H \in Seq(S)
    BY <1>4
  <2>2. Find(D \o H, name) = IF IsMissing(Find(D, name)) THEN Find(H, name) ELSE Find(D, name)
    BY <1>4, FindInBoth
  <2>3. Find((D \o H) \o W, name)
          = IF IsMissing(Find(D \o H, name)) THEN Find(W, name) ELSE Find(D \o H, name)
    BY <1>4, <2>1, FindInBoth
  <2>. QED
    BY <2>2, <2>3
<1>. QED
  BY <1>1, <1>2, <1>3, <1>5 DEF Parts, d, h, w

(* The node of a small or large preview.                                   *)
PreviewNode(name, parts, link, height) ==
  Element(name,
          IF parts = NoContent THEN <<Text>>
          ELSE <<Text, Element("oslc:Preview", PartsOf(parts, link, height), UNDEFINED)>>,
          UNDEFINED)

LEMMA PreviewNodes ==
  ASSUME NEW name, NEW parts, NEW link, NEW height
  PROVE  PreviewElement(name, parts, link, height)
           \in Seq({Text, PreviewNode(name, parts, link, height)})
<1>. DEFINE x == PreviewNode(name, parts, link, height)
<1>1. PreviewElement(name, parts, link, height) \in {<< >>, <<x>>, <<Text, x>>}
  BY DEF PreviewElement, PreviewNode
<1>. HIDE DEF x
<1>2. << >> \in Seq({Text, x}) /\ <<x>> \in Seq({Text, x}) /\ <<Text, x>> \in Seq({Text, x})
  OBVIOUS
<1>. QED
  BY <1>1, <1>2 DEF x

LEMMA FindPreview ==
  ASSUME NEW name, NEW other, NEW parts, NEW link, NEW height
  PROVE  Find(PreviewElement(other, parts, link, height), name)
           = IF parts = Absent \/ other # name THEN Undefined
             ELSE PreviewNode(other, parts, link, height)
<1>. DEFINE P == PreviewElement(other, parts, link, height)
            x == PreviewNode(other, parts, link, height)
<1>0. NoContent # Absent
  BY DEF NoContent, Absent
<1>1. CASE parts = Absent
  <2>1. P = << >>
    BY <1>1 DEF PreviewElement
  <2>. QED
    BY <1>1, <2>1, FindInNone
<1>2. CASE parts = NoContent
  <2>1. P = <<x>> /\ x = Element(other, <<Text>>, UNDEFINED)
    BY <1>0, <1>2 DEF PreviewElement, PreviewNode
  <2>2. x.nodeType = "element" /\ x.nodeName = other
    BY <2>1 DEF Element
  <2>. HIDE DEF x, P
  <2>4. Named(<<x>>, name) = IF other = name THEN {1} ELSE {}
    BY <2>2 DEF Named, Elements
  <2>5. Find(<<x>>, name) = IF other = name THEN x ELSE Undefined
    BY <2>4, FirstIs DEF First, Find
  <2>. QED
    BY <1>0, <1>2, <2>1, <2>5 DEF P, x
<1>3. CASE parts # Absent /\ parts # NoContent
  <2>. DEFINE c == <<Text, Element("oslc:Preview", PartsOf(parts, link, height), UNDEFINED)>>
  <2>1. P = <<Text, x>> /\ x = Element(other, c, UNDEFINED)
    BY <1>3 DEF PreviewElement, PreviewNode
  <2>. HIDE DEF c
  <2>2. Find(<<Text, Element(other, c, UNDEFINED)>>, name)
          = IF other = name THEN Element(other, c, UNDEFINED) ELSE Undefined
    BY FindInPart
  <2>. HIDE DEF x, P
  <2>. QED
    BY <1>3, <2>1, <2>2 DEF P, x
<1>. QED
  BY <1>1, <1>2, <1>3

(* The first element in white space.                                       *)
LEMMA FirstElement ==
  ASSUME NEW name, NEW value, NEW e, e.nodeType = "element"
  PROVE  FirstChild(Element(name, <<Text, e>>, value)) = e
<1>1. Elements(<<Text, e>>) = {2}
  BY DEF Elements, Text
<1>2. First(<<Text, e>>, {2}) = e
  BY FirstIs
<1>. QED
  BY <1>1, <1>2 DEF FirstChild, Element

LEMMA OnlyElement ==
  ASSUME NEW name, NEW value, NEW e, e.nodeType = "element"
  PROVE  FirstChild(Element(name, <<e>>, value)) = e
<1>1. Elements(<<e>>) = {1}
  BY DEF Elements
<1>2. First(<<e>>, {1}) = e
  BY FirstIs
<1>. QED
  BY <1>1, <1>2 DEF FirstChild, Element

LEMMA NoElement ==
  ASSUME NEW name, NEW value
  PROVE  FirstChild(Element(name, <<Text>>, value)) = Undefined
BY DEF FirstChild, First, Elements, Text, Element

(* The children of a compact document that parsePreview looks at.          *)
LEMMA FindInCompact ==
  ASSUME NEW link, NEW shape
  PROVE  LET title == Element("dcterms:title", << >>, link)
             small == PreviewNode("oslc:smallPreview", shape.small, link, "10em")
             compact == FirstChild(FirstChild(Compact(link, shape)))
         IN  /\ FirstChildNamed(compact, "dcterms:title")
                   = IF shape.title THEN title ELSE Undefined
             /\ FirstChildNamed(compact, "oslc:smallPreview")
                   = IF shape.small = Absent THEN Undefined ELSE small
<1>. DEFINE title == Element("dcterms:title", << >>, link)
            small == PreviewNode("oslc:smallPreview", shape.small, link, "10em")
            large == PreviewNode("oslc:largePreview", shape.large, link, "20em")
            S == {Text, title, small, large}
            T == IF shape.title THEN <<Text, title>> ELSE << >>
            P == PreviewElement("oslc:smallPreview", shape.small, link, "10em")
            L == PreviewElement("oslc:largePreview", shape.large, link, "20em")
            compact == Element("oslc:Compact", (T \o P) \o L, UNDEFINED)
<1>1. FirstChild(FirstChild(Compact(link, shape))) = compact
  <2>. DEFINE rdf == Element("rdf:RDF", <<Text, compact>>, UNDEFINED)
  <2>1. Compact(link, shape) = Element("#document", <<rdf>>, UNDEFINED)
    BY DEF Compact, Part
  <2>2. compact.nodeType = "element"
    BY DEF Element
  <2>3. rdf.nodeType = "element"
    BY DEF Element
  <2>. HIDE DEF compact
  <2>4. FirstChild(rdf) = compact
    BY <2>2, FirstElement
  <2>. HIDE DEF rdf
  <2>5. FirstChild(Element("#document", <<rdf>>, UNDEFINED)) = rdf
    BY <2>3, OnlyElement
  <2>. QED
    BY <2>1, <2>4, <2>5
<1>2. ASSUME NEW name PROVE FirstChildNamed(compact, name) = Find((T \o P) \o L, name)
  BY DEF FirstChildNamed, Find, Element
<1>3. ASSUME NEW name
      PROVE  /\ Find(T, name) = IF shape.title /\ name = "dcterms:title" THEN title ELSE Undefined
             /\ Find(P, name) = IF shape.small = Absent \/ "oslc:smallPreview" # name
                                THEN Undefined ELSE small
             /\ Find(L, name) = IF shape.large = Absent \/ "oslc:largePreview" # name
                                THEN Undefined ELSE large
  <2>1. Find(T, name) = IF shape.title /\ name = "dcterms:title" THEN title ELSE Undefined
    <3>1. Find(<<Text, title>>, name) = IF name = "dcterms:title" THEN title ELSE Undefined
      BY FindInPart
    <3>. QED
      BY <3>1, FindInNone
  <2>2. Find(P, name) = IF shape.small = Absent \/ "oslc:smallPreview" # name
                        THEN Undefined ELSE small
    BY FindPreview
  <2>3. Find(L, name) = IF shape.large = Absent \/ "oslc:largePreview" # name
                        THEN Undefined ELSE large
    BY FindPreview
  <2>. QED
    BY <2>1, <2>2, <2>3
<1>4. ~IsMissing(title) /\ ~IsMissing(small) /\ IsMissing(Undefined)
  BY DEF IsMissing, Element, Undefined, PreviewNode
<1>5. P \in Seq({Text, small}) /\ L \in Seq({Text, large})
  BY PreviewNodes
<1>. HIDE DEF title, small, large, P, L
<1>6. P \in Seq(S) /\ L \in Seq(S)
  BY <1>5
<1>7. T \in Seq(S)
  <2>1. <<Text, title>> \in Seq(S) /\ << >> \in Seq(S)
    OBVIOUS
  <2>. HIDE DEF S
  <2>. QED
    BY <2>1
<1>. HIDE DEF S, T, compact
<1>8. ASSUME NEW name
      PROVE  Find((T \o P) \o L, name)
               = IF ~IsMissing(Find(T, name)) THEN Find(T, name)
                 ELSE IF ~IsMissing(Find(P, name)) THEN Find(P, name) ELSE Find(L, name)
  <2>1. T \o P \in Seq(S)
    BY <1>6, <1>7
  <2>2. Find(T \o P, name) = IF IsMissing(Find(T, name)) THEN Find(P, name) ELSE Find(T, name)
    BY <1>6, <1>7, FindInBoth
  <2>3. Find((T \o P) \o L, name)
          = IF IsMissing(Find(T \o P, name)) THEN Find(L, name) ELSE Find(T \o P, name)
    BY <1>6, <2>1, FindInBoth
  <2>. QED
    BY <2>2, <2>3
<1>9. FirstChildNamed(compact, "dcterms:title") = IF shape.title THEN title ELSE Undefined
  BY <1>2, <1>3, <1>4, <1>8
<1>10. FirstChildNamed(compact, "oslc:smallPreview")
         = IF shape.small = Absent THEN Undefined ELSE small
  BY <1>2, <1>3, <1>4, <1>8
<1>. QED
  BY <1>1, <1>9, <1>10 DEF title, small

(* Both sizes, as parsePreview needs of a preview that is there.           *)
Sized(parts) == {"oslc:hintHeight", "oslc:hintWidth"} \subseteq parts

Refused(shape) ==
  \/ ~shape.title \/ shape.small = Absent
  \/ shape.small # NoContent /\ ~Sized(shape.small)

(* The whole of parsePreview: the small preview alone matters.             *)
LEMMA Parsed ==
  ASSUME NEW link, NEW shape
  PROVE  ParsePreview(Compact(link, shape))
           = IF Refused(shape) THEN ParseError
             ELSE IF shape.small = NoContent THEN Frame(link, UNDEFINED, "11em", "45em")
             ELSE Frame(link, IF "oslc:document" \in shape.small THEN link ELSE UNDEFINED,
                        "10em", "45em")
<1>. DEFINE compact == FirstChild(FirstChild(Compact(link, shape)))
            titleChild == FirstChildNamed(compact, "dcterms:title")
            smallPrev == FirstChildNamed(compact, "oslc:smallPreview")
            preview == FirstChild(smallPrev)
            document == FirstChildNamed(preview, "oslc:document")
            height == FirstChildNamed(preview, "oslc:hintHeight")
            width == FirstChildNamed(preview, "oslc:hintWidth")
            title == Element("dcterms:title", << >>, link)
            small == PreviewNode("oslc:smallPreview", shape.small, link, "10em")
            parts == PartsOf(shape.small, link, "10em")
            inner == Element("oslc:Preview", parts, UNDEFINED)
<1>1. /\ titleChild = IF shape.title THEN title ELSE Undefined
      /\ smallPrev = IF shape.small = Absent THEN Undefined ELSE small
  BY FindInCompact
<1>2. /\ ~IsMissing(title) /\ ~IsMissing(small) /\ ~IsMissing(inner) /\ IsMissing(Undefined)
      /\ title.value = link /\ Undefined.value = UNDEFINED
      /\ inner.nodeType = "element" /\ inner.childNodes = parts
      /\ small # Null /\ Undefined # Null
  BY DEF IsMissing, Element, Undefined, Null, PreviewNode
<1>3. small = Element("oslc:smallPreview", IF shape.small = NoContent THEN <<Text>> ELSE <<Text, inner>>,
                      UNDEFINED)
  BY DEF PreviewNode
<1>4. ParsePreview(Compact(link, shape))
        = IF IsMissing(titleChild) \/ IsMissing(smallPrev) THEN ParseError
          ELSE IF IsMissing(preview) THEN Frame(titleChild.value, UNDEFINED, "11em", "45em")
          ELSE IF IsMissing(height) \/ IsMissing(width) THEN ParseError
          ELSE Frame(titleChild.value, document.value, height.value, width.value)
  <2>1. smallPrev # Null
    BY <1>1, <1>2
  <2>. QED
    BY <2>1 DEF ParsePreview
<1>. HIDE DEF compact, titleChild, smallPrev, title, small, inner
<1>5. CASE ~shape.title \/ shape.small = Absent
  BY <1>1, <1>2, <1>4, <1>5 DEF Refused
<1>6. CASE shape.title /\ shape.small # Absent /\ shape.small = NoContent
  <2>1. preview = Undefined
    BY <1>1, <1>3, <1>6, NoElement
  <2>. HIDE DEF preview
  <2>. QED
    BY <1>1, <1>2, <1>4, <1>6, <2>1 DEF Refused
<1>7. CASE shape.title /\ shape.small # Absent /\ shape.small # NoContent
  <2>1. preview = inner
    BY <1>1, <1>2, <1>3, <1>7, FirstElement
  <2>. HIDE DEF preview
  <2>2. /\ document = Find(parts, "oslc:document")
        /\ height = Find(parts, "oslc:hintHeight")
        /\ width = Find(parts, "oslc:hintWidth")
    BY <1>2, <2>1 DEF FirstChildNamed, Find
  <2>3. /\ document.value = IF "oslc:document" \in shape.small THEN link ELSE UNDEFINED
        /\ IsMissing(height) <=> "oslc:hintHeight" \notin shape.small
        /\ "oslc:hintHeight" \in shape.small => height.value = "10em"
        /\ IsMissing(width) <=> "oslc:hintWidth" \notin shape.small
        /\ "oslc:hintWidth" \in shape.small => width.value = "45em"
    <3>. DEFINE d == Element("oslc:document", << >>, link)
                h == Element("oslc:hintHeight", << >>, "10em")
                w == Element("oslc:hintWidth", << >>, "45em")
    <3>1. /\ document = IF "oslc:document" \in shape.small THEN d ELSE Undefined
          /\ height = IF "oslc:hintHeight" \in shape.small THEN h ELSE Undefined
          /\ width = IF "oslc:hintWidth" \in shape.small THEN w ELSE Undefined
      BY <2>2, FindPart
    <3>2. /\ d.value = link /\ h.value = "10em" /\ w.value = "45em"
          /\ ~IsMissing(h) /\ ~IsMissing(w)
      BY DEF IsMissing, Element
    <3>. HIDE DEF document, height, width, d, h, w
    <3>. QED
      BY <1>2, <3>1, <3>2
  <2>. HIDE DEF document, height, width
  <2>4. Sized(shape.small) <=> ~IsMissing(height) /\ ~IsMissing(width)
    BY <2>3 DEF Sized
  <2>5. CASE Sized(shape.small)
    BY <1>1, <1>2, <1>4, <1>7, <2>1, <2>3, <2>4, <2>5 DEF Refused, Sized
  <2>6. CASE ~Sized(shape.small)
    BY <1>1, <1>2, <1>4, <1>7, <2>1, <2>4, <2>6 DEF Refused
  <2>. QED
    BY <2>5, <2>6
<1>. QED
  BY <1>5, <1>6, <1>7

-----------------------------------------------------------------------------
(* The types the invariants need: what the documents hold does not matter. *)
Popovers ==
  /\ over \in Links \cup {NULL}
  /\ hover \in [Links -> {"", "show", "out"}]
  /\ timer \in [Links -> {"none", "show", "hide"}]
  /\ attached \subseteq Links /\ forgotten \subseteq Links
  /\ classes \in [Links -> SUBSET {"fade", "show"}]
  /\ pending \in [Links -> SUBSET {"shown", "hidden"}]
  /\ attrs = [l \in Links |-> attrs[l]] /\ body = [l \in Links |-> body[l]]
  /\ sent \in Nat /\ uiElem \in [Requests -> Links \cup {UNDEFINED}]
  /\ \A r \in 1..sent : r \in Requests /\ uiElem[r] \in Links

(* Only the link under the pointer is about to show its popover, and what  *)
(* happened to the pointer since a popover was shown is not lost before    *)
(* its transition ends.                                                    *)
Hovers ==
  /\ \A l \in Links : hover[l] = "show" => over = l
  /\ \A l \in Links : "shown" \in pending[l] => hover[l] # ""

PopoverInv == Popovers /\ Hovers /\ LeftPopoversGo /\ PopoverShowsAttributes

LEMMA InitPopover == Init => PopoverInv
<1> SUFFICES ASSUME Init PROVE PopoverInv
  OBVIOUS
<1>1. Popovers
  <2>1. /\ over \in Links \cup {NULL} /\ hover \in [Links -> {"", "show", "out"}]
        /\ timer \in [Links -> {"none", "show", "hide"}]
        /\ attached \subseteq Links /\ forgotten \subseteq Links
        /\ classes \in [Links -> SUBSET {"fade", "show"}]
        /\ pending \in [Links -> SUBSET {"shown", "hidden"}]
    BY DEF Init
  <2>2. attrs = [l \in Links |-> attrs[l]] /\ body = [l \in Links |-> body[l]]
    BY DEF Init
  <2>3. sent = 0 /\ uiElem = [r \in Requests |-> UNDEFINED]
    BY DEF Init
  <2>4. sent \in Nat /\ uiElem \in [Requests -> Links \cup {UNDEFINED}]
    BY <2>3
  <2>5. \A r \in 1..sent : r \in Requests /\ uiElem[r] \in Links
    BY <2>3
  <2> QED BY <2>1, <2>2, <2>4, <2>5 DEF Popovers
<1>2. Hovers /\ LeftPopoversGo /\ PopoverShowsAttributes
  BY DEF Init, Hovers, LeftPopoversGo, PopoverShowsAttributes
<1> QED BY <1>1, <1>2 DEF PopoverInv

LEMMA EnterKeeps ==
  ASSUME PopoverInv, NEW l \in Links, Enter(l)
  PROVE  PopoverInv'
<1>1. Popovers'
  BY DEF PopoverInv, Popovers, Enter, requests, tips, Requests
<1>2. Hovers'
  BY PreviewAssumption DEF PopoverInv, Popovers, Hovers, Enter, tips
<1>3. LeftPopoversGo'
  <2>1. \A k \in attached : over # k
    BY PreviewAssumption DEF PopoverInv, Popovers, Enter
  <2> QED BY <2>1 DEF PopoverInv, Popovers, LeftPopoversGo, Removing, Enter, tips
<1>4. PopoverShowsAttributes'
  BY DEF PopoverInv, PopoverShowsAttributes, Enter, tips
<1> QED BY <1>1, <1>2, <1>3, <1>4 DEF PopoverInv

LEMMA LeaveKeeps ==
  ASSUME PopoverInv, NEW l \in Links, Leave(l)
  PROVE  PopoverInv'
<1>1. Popovers'
  BY DEF PopoverInv, Popovers, Leave, requests, tips, Requests
<1>2. Hovers'
  BY PreviewAssumption DEF PopoverInv, Popovers, Hovers, Leave, tips
<1>3. LeftPopoversGo'
  BY DEF PopoverInv, Popovers, LeftPopoversGo, Removing, Leave, tips
<1>4. PopoverShowsAttributes'
  BY DEF PopoverInv, PopoverShowsAttributes, Leave, tips
<1> QED BY <1>1, <1>2, <1>3, <1>4 DEF PopoverInv

(* A popover that shows sends one request more, of its link.               *)
LEMMA RequestSent ==
  ASSUME PopoverInv, NEW l \in Links, Show(l)
  PROVE  /\ attached' \subseteq Links
         /\ attrs' = [k \in Links |-> attrs'[k]] /\ body' = [k \in Links |-> body'[k]]
         /\ sent' \in Nat /\ uiElem' \in [Requests -> Links \cup {UNDEFINED}]
         /\ \A r \in 1..sent' : r \in Requests /\ uiElem'[r] \in Links
         /\ PopoverShowsAttributes'
<1>1. sent + 1 \in Requests
  <2>1. sent \in Nat /\ sent < MaxRequests
    BY DEF PopoverInv, Popovers, Show
  <2> QED BY <2>1, PreviewAssumption DEF Requests
<1>2. /\ sent \in Nat /\ uiElem \in [Requests -> Links \cup {UNDEFINED}]
      /\ sent' = sent + 1 /\ uiElem' = [uiElem EXCEPT ![sent + 1] = l]
  BY DEF PopoverInv, Popovers, Show
<1>3. \A r \in 1..sent' : r \in Requests /\ uiElem'[r] \in Links
  <2> SUFFICES ASSUME NEW r \in 1..sent' PROVE r \in Requests /\ uiElem'[r] \in Links
    OBVIOUS
  <2>1. CASE r = sent + 1
    BY <1>1, <1>2, <2>1
  <2>2. CASE r # sent + 1
    <3>1. r \in 1..sent
      BY <1>2, <2>2
    <3>2. r \in Requests /\ uiElem[r] \in Links
      BY <3>1 DEF PopoverInv, Popovers
    <3> QED BY <1>2, <2>2, <3>2
  <2> QED BY <2>1, <2>2
<1>4. sent' \in Nat /\ uiElem' \in [Requests -> Links \cup {UNDEFINED}]
  <2>1. sent' \in Nat
    BY <1>2
  <2>2. ASSUME NEW n \in Requests, n = sent + 1
        PROVE  uiElem' \in [Requests -> Links \cup {UNDEFINED}]
    <3>1. uiElem' = [uiElem EXCEPT ![n] = l]
      BY <1>2, <2>2
    <3> QED BY <1>2, <3>1
  <2> QED BY <1>1, <2>1, <2>2
<1>5. attached' \subseteq Links /\ attrs' = [k \in Links |-> attrs'[k]] /\ body' = [k \in Links |-> body'[k]]
  BY DEF PopoverInv, Popovers, Show
<1>6. PopoverShowsAttributes'
  BY DEF PopoverInv, Popovers, PopoverShowsAttributes, Show
<1> QED BY <1>3, <1>4, <1>5, <1>6

LEMMA ShowKeeps ==
  ASSUME PopoverInv, NEW l \in Links, ShowTimer(l)
  PROVE  PopoverInv'
<1>1. CASE hover[l] = "show"
  <2>1. Show(l) /\ over = l
    BY <1>1 DEF PopoverInv, Hovers, ShowTimer
  <2>2. Popovers'
    <3>1. /\ over' \in Links \cup {NULL} /\ hover' \in [Links -> {"", "show", "out"}]
          /\ timer' \in [Links -> {"none", "show", "hide"}] /\ forgotten' \subseteq Links
          /\ classes' \in [Links -> SUBSET {"fade", "show"}]
          /\ pending' \in [Links -> SUBSET {"shown", "hidden"}]
      <4>1. /\ over' = over /\ hover' = hover /\ forgotten' = forgotten
            /\ timer' = [timer EXCEPT ![l] = "none"]
            /\ classes' = [classes EXCEPT ![l] = {"fade", "show"}]
            /\ pending' = [pending EXCEPT ![l] = pending[l] \cup {"shown"}]
        BY <1>1 DEF ShowTimer
      <4>2. pending' \in [Links -> SUBSET {"shown", "hidden"}]
        BY <4>1 DEF PopoverInv, Popovers
      <4> QED BY <4>1, <4>2 DEF PopoverInv, Popovers
    <3> QED BY <2>1, <3>1, RequestSent DEF Popovers
  <2>3. Hovers'
    BY <1>1 DEF PopoverInv, Popovers, Hovers, ShowTimer
  <2>4. LeftPopoversGo'
    <3>1. /\ over' = over /\ hover' = hover /\ forgotten' = forgotten
          /\ attached' = attached \cup {l}
          /\ \A k \in Links \ {l} : timer'[k] = timer[k] /\ pending'[k] = pending[k]
      BY <1>1, <2>1 DEF PopoverInv, Popovers, ShowTimer, Show
    <3> QED BY <2>1, <3>1 DEF PopoverInv, Popovers, LeftPopoversGo, Removing
  <2> QED BY <2>1, <2>2, <2>3, <2>4, RequestSent DEF PopoverInv
<1>2. CASE hover[l] # "show"
  <2>1. UNCHANGED <<over, hover, tips, forgotten, attrs, body, requests>>
    BY <1>2 DEF ShowTimer
  <2>2. Popovers'
    BY <2>1 DEF PopoverInv, Popovers, ShowTimer, requests, tips, Requests
  <2>3. Hovers' /\ PopoverShowsAttributes'
    BY <2>1 DEF PopoverInv, Hovers, PopoverShowsAttributes, tips
  <2>4. LeftPopoversGo'
    BY <2>1 DEF PopoverInv, Popovers, LeftPopoversGo, Removing, ShowTimer, tips
  <2> QED BY <2>2, <2>3, <2>4 DEF PopoverInv
<1> QED BY <1>1, <1>2

LEMMA HideKeeps ==
  ASSUME PopoverInv, NEW l \in Links, HideTimer(l)
  PROVE  PopoverInv'
<1>1. CASE hover[l] = "out"
  <2>1. /\ over' = over /\ forgotten' = forgotten /\ UNCHANGED <<attrs, body, requests>>
        /\ timer' = [timer EXCEPT ![l] = "none"]
        /\ hover' = [hover EXCEPT ![l] = ""]
        /\ classes' = [classes EXCEPT ![l] = classes[l] \ {"show"}]
    BY <1>1 DEF HideTimer
  <2>2. \/ pending' = [pending EXCEPT ![l] = pending[l] \cup {"hidden"}] /\ attached' = attached
        \/ pending' = pending /\ attached' = attached \ {l}
    BY <1>1 DEF HideTimer
  <2>3. "shown" \notin pending[l]
    BY DEF HideTimer
  <2>4. pending' \in [Links -> SUBSET {"shown", "hidden"}] /\ attached' \subseteq attached
    <3>1. pending \in [Links -> SUBSET {"shown", "hidden"}]
      BY DEF PopoverInv, Popovers
    <3>2. pending[l] \cup {"hidden"} \in SUBSET {"shown", "hidden"}
      BY <3>1
    <3> HIDE DEF PopoverInv
    <3>3. pending' \in [Links -> SUBSET {"shown", "hidden"}]
      BY <2>2, <3>1, <3>2
    <3> QED BY <2>2, <3>3
  <2>5. classes' \in [Links -> SUBSET {"fade", "show"}]
    BY <2>1 DEF PopoverInv, Popovers
  <2>6. Popovers'
    BY <2>1, <2>4, <2>5 DEF PopoverInv, Popovers, requests, Requests
  <2>7. /\ \A k \in Links \ {l} : /\ timer'[k] = timer[k] /\ hover'[k] = hover[k]
                                  /\ pending'[k] = pending[k]
        /\ l \in attached' => "hidden" \in pending'[l]
        /\ hover'[l] = "" /\ "shown" \notin pending'[l]
    <3>1. /\ pending \in [Links -> SUBSET {"shown", "hidden"}]
          /\ hover \in [Links -> {"", "show", "out"}]
          /\ timer \in [Links -> {"none", "show", "hide"}]
      BY DEF PopoverInv, Popovers
    <3>2. \A k \in Links \ {l} : timer'[k] = timer[k] /\ hover'[k] = hover[k]
      BY <2>1, <3>1
    <3>3. hover'[l] = ""
      BY <2>1, <3>1
    <3>4. CASE pending' = [pending EXCEPT ![l] = pending[l] \cup {"hidden"}]
      <4>1. /\ pending'[l] = pending[l] \cup {"hidden"}
            /\ \A k \in Links \ {l} : pending'[k] = pending[k]
        BY <3>1, <3>4
      <4> QED BY <2>3, <3>2, <3>3, <4>1
    <3>5. CASE pending' = pending /\ attached' = attached \ {l}
      BY <2>3, <3>2, <3>3, <3>5
    <3> QED BY <2>2, <3>4, <3>5
  <2>8. Hovers'
    BY <2>1, <2>7 DEF PopoverInv, Hovers
  <2>9. LeftPopoversGo'
    BY <2>1, <2>4, <2>7 DEF PopoverInv, Popovers, LeftPopoversGo, Removing
  <2>10. PopoverShowsAttributes'
    BY <2>1, <2>4 DEF PopoverInv, PopoverShowsAttributes
  <2> QED BY <2>6, <2>8, <2>9, <2>10 DEF PopoverInv
<1>2. CASE hover[l] # "out"
  <2>1. UNCHANGED <<over, hover, tips, forgotten, attrs, body, requests>>
    BY <1>2 DEF HideTimer
  <2>2. Popovers'
    BY <2>1 DEF PopoverInv, Popovers, HideTimer, requests, tips, Requests
  <2>3. Hovers' /\ PopoverShowsAttributes'
    BY <2>1 DEF PopoverInv, Hovers, PopoverShowsAttributes, tips
  <2>4. LeftPopoversGo'
    BY <1>2, <2>1 DEF PopoverInv, Popovers, LeftPopoversGo, Removing, HideTimer, tips
  <2> QED BY <2>2, <2>3, <2>4 DEF PopoverInv
<1> QED BY <1>1, <1>2

(* The end of a transition: a tip that stays in the document is that of    *)
(* the link under the pointer, or its pointer was forgotten.               *)
LEMMA TransitionKeeps ==
  ASSUME PopoverInv, NEW l \in Links, TransitionEnd(l)
  PROVE  PopoverInv'
<1>1. CASE Hidden(l)
  <2>1. Popovers' /\ Hovers' /\ PopoverShowsAttributes'
    BY <1>1 DEF PopoverInv, Popovers, Hovers, PopoverShowsAttributes, Hidden, requests, Requests
  <2>2. LeftPopoversGo'
    BY <1>1 DEF PopoverInv, Popovers, Hovers, LeftPopoversGo, Removing, Hidden
  <2> QED BY <2>1, <2>2 DEF PopoverInv
<1>2. CASE Shown(l)
  <2>1. Popovers' /\ Hovers' /\ PopoverShowsAttributes'
    BY <1>2 DEF PopoverInv, Popovers, Hovers, PopoverShowsAttributes, Shown, requests, Requests
  <2>2. LeftPopoversGo'
    <3>1. /\ over' = over /\ attached' = attached /\ forgotten' = forgotten
          /\ \A k \in Links \ {l} : /\ timer'[k] = timer[k] /\ hover'[k] = hover[k]
                                  /\ pending'[k] = pending[k]
          /\ "hidden" \notin pending[l]
          /\ hover[l] = "out" => timer'[l] = "hide" /\ hover'[l] = "out"
      BY <1>2 DEF PopoverInv, Popovers, Shown
    <3> QED BY <3>1 DEF PopoverInv, Popovers, LeftPopoversGo, Removing
  <2> QED BY <2>1, <2>2 DEF PopoverInv
<1>3. CASE ShownAgain(l)
  <2>1. Show(l)
    BY <1>3 DEF ShownAgain
  <2>2. Popovers'
    <3>1. /\ over' \in Links \cup {NULL} /\ hover' \in [Links -> {"", "show", "out"}]
          /\ timer' \in [Links -> {"none", "show", "hide"}] /\ forgotten' \subseteq Links
          /\ classes' \in [Links -> SUBSET {"fade", "show"}]
          /\ pending' \in [Links -> SUBSET {"shown", "hidden"}]
      BY <1>3 DEF PopoverInv, Popovers, ShownAgain
    <3> QED BY <2>1, <3>1, RequestSent DEF Popovers
  <2>3. Hovers'
    BY <1>3 DEF PopoverInv, Popovers, Hovers, ShownAgain
  <2>4. hover[l] \in {"show", "out"}
    BY <1>3 DEF PopoverInv, Popovers, Hovers, ShownAgain
  <2>5. LeftPopoversGo'
    BY <1>3, <2>1, <2>4 DEF PopoverInv, Popovers, Hovers, LeftPopoversGo, Removing, ShownAgain, Show
  <2> QED BY <2>1, <2>2, <2>3, <2>5, RequestSent DEF PopoverInv
<1> QED BY <1>1, <1>2, <1>3 DEF TransitionEnd

(* Whatever an answer holds, it changes the attributes and the popover of  *)
(* a link together.                                                        *)
LEMMA AnswerKeeps ==
  ASSUME PopoverInv, NEW r, Waiting(r), NEW new, Answer(r, new)
  PROVE  PopoverInv'
<1>1. UiElem(r) \in Links
  BY DEF PopoverInv, Popovers, UiElem, Waiting
<1>2. Popovers'
  BY <1>1 DEF PopoverInv, Popovers, Answer, SetContent, Requests
<1>3. Hovers' /\ LeftPopoversGo'
  BY DEF PopoverInv, Hovers, LeftPopoversGo, Removing, Answer
<1>4. PopoverShowsAttributes'
  BY <1>1 DEF PopoverInv, Popovers, PopoverShowsAttributes, Answer, SetContent
<1> QED BY <1>2, <1>3, <1>4 DEF PopoverInv

LEMMA NextPopover == PopoverInv /\ [Next]_vars => PopoverInv'
<1> SUFFICES ASSUME PopoverInv, [Next]_vars
             PROVE  PopoverInv'
  OBVIOUS
<1>1. ASSUME NEW r \in Requests, Ends(r)
      PROVE  PopoverInv'
  BY <1>1, AnswerKeeps DEF Ends, Success, Error
<1>2. CASE UNCHANGED vars
  BY <1>2 DEF PopoverInv, Popovers, Hovers, LeftPopoversGo, Removing, PopoverShowsAttributes,
              vars, popovers, tips, requests, Requests
<1> QED BY <1>1, <1>2, EnterKeeps, LeaveKeeps, ShowKeeps, HideKeeps, TransitionKeeps DEF Next

(* When a popover shows, no timer is going to hide another one any more:   *)
(* it has run out before, having the shorter delay.                        *)
LEMMA ShowsAlone ==
  ASSUME PopoverInv, [Next]_vars, NEW l \in Links, "shown" \in pending'[l] \ pending[l],
         NEW other \in attached \ {l}
  PROVE  Removing(other)
<1>1. ShowTimer(l) /\ hover[l] = "show"
  <2>1. ASSUME NEW k \in Links, ShowTimer(k) PROVE k = l /\ hover[k] = "show"
    BY <2>1 DEF PopoverInv, Popovers, ShowTimer, tips
  <2>2. ASSUME NEW k \in Links, HideTimer(k) \/ TransitionEnd(k) PROVE FALSE
    <3>1. \A j \in Links : "shown" \in pending'[j] => "shown" \in pending[j]
      <4>1. \/ pending' = [pending EXCEPT ![k] = pending[k] \cup {"hidden"}]
            \/ pending' = pending
            \/ pending' = [pending EXCEPT ![k] = {}]
        BY <2>2 DEF HideTimer, TransitionEnd, Hidden, Shown, ShownAgain, tips
      <4>2. pending \in [Links -> SUBSET {"shown", "hidden"}]
        BY DEF PopoverInv, Popovers
      <4>3. pending'[k] \subseteq pending[k] \cup {"hidden"} /\ \A j \in Links \ {k} : pending'[j] = pending[j]
        <5>1. CASE pending' = [pending EXCEPT ![k] = pending[k] \cup {"hidden"}]
          BY <4>2, <5>1
        <5>2. CASE pending' = pending
          BY <5>2
        <5>3. CASE pending' = [pending EXCEPT ![k] = {}]
          BY <4>2, <5>3
        <5> QED BY <4>1, <5>1, <5>2, <5>3
      <4>4. ASSUME NEW j \in Links, "shown" \in pending'[j] PROVE "shown" \in pending[j]
        BY <4>3, <4>4
      <4> QED BY <4>4
    <3> QED BY <3>1
  <2>3. ASSUME UNCHANGED pending PROVE FALSE
    BY <2>3
  <2> QED BY <2>1, <2>2, <2>3 DEF Next, Enter, Leave, Ends, Success, Error, Answer,
                                 vars, popovers, tips
<1>2. over = l /\ timer[other] # "hide"
  <2>1. Delay.hide <= Delay.show
    BY DEF Delay
  <2>2. other \in Links
    BY DEF PopoverInv, Popovers
  <2> QED BY <1>1, <2>1, <2>2 DEF PopoverInv, Hovers, ShowTimer
<1> QED BY <1>2 DEF PopoverInv, LeftPopoversGo

-----------------------------------------------------------------------------
(* What the attributes and the popover of a link may be: what it says at   *)
(* first, an error, or the preview in an answer to one of its own requests.*)
Possible(l) == {Loading, LoadError} \cup Previews[l]

Contents ==
  /\ \A l \in Links : attrs[l] \in Possible(l) /\ body[l] \in Possible(l)
  /\ sent <= MaxRequests /\ answered \subseteq 1..sent

LEMMA InitContents == Init => Contents
<1>1. MaxRequests \in Nat
  BY PreviewAssumption
<1>2. Init => sent = 0 /\ answered = {}
  BY DEF Init
<1>3. Init => sent <= MaxRequests /\ answered \subseteq 1..sent
  BY <1>1, <1>2
<1>4. Init => \A l \in Links : attrs[l] \in Possible(l) /\ body[l] \in Possible(l)
  BY DEF Init, Possible
<1>. QED
  BY <1>3, <1>4 DEF Contents

LEMMA ContentStays ==
  ASSUME PopoverInv, Contents, NEW l \in Links, NEW new \in Possible(l), SetContent(l, new)
  PROVE  \A k \in Links : attrs'[k] \in Possible(k) /\ body'[k] \in Possible(k)
BY DEF PopoverInv, Popovers, Contents, SetContent

LEMMA NextContents == PopoverInv /\ Contents /\ [Next]_vars => Contents'
<1>. SUFFICES ASSUME PopoverInv, Contents, [Next]_vars PROVE Contents'
  OBVIOUS
<1>1. ASSUME UNCHANGED <<attrs, body, sent, answered>> PROVE Contents'
  BY <1>1 DEF Contents
<1>2. ASSUME NEW l \in Links, Show(l) PROVE Contents'
  <2>1. \A k \in Links : body'[k] \in Possible(k)
    BY <1>2 DEF PopoverInv, Popovers, Contents, Show
  <2>2. sent' <= MaxRequests /\ answered' \subseteq 1..sent'
    <3>1. /\ sent \in Nat /\ sent < MaxRequests /\ sent' = sent + 1
          /\ answered' = answered /\ answered \subseteq 1..sent
      BY <1>2 DEF PopoverInv, Popovers, Contents, Show
    <3>2. MaxRequests \in Nat
      BY PreviewAssumption
    <3>. QED
      BY <3>1, <3>2
  <2>. QED
    BY <1>2, <2>1, <2>2 DEF Contents, Show
<1>3. ASSUME NEW l \in Links,
             Enter(l) \/ Leave(l) \/ ShowTimer(l) \/ HideTimer(l) \/ TransitionEnd(l)
      PROVE  Contents'
  BY <1>1, <1>2, <1>3 DEF Enter, Leave, ShowTimer, HideTimer, TransitionEnd, Hidden, Shown,
                          ShownAgain, requests
<1>4. ASSUME NEW r \in Requests, Ends(r) PROVE Contents'
  <2>1. r \in 1..sent /\ UiElem(r) = uiElem[r] /\ uiElem[r] \in Links
    BY <1>4 DEF Ends, Success, Error, Waiting, UiElem, PopoverInv, Popovers
  <2>2. PICK new \in Possible(uiElem[r]) : Answer(r, new)
    BY <1>4, <2>1 DEF Ends, Success, Error, Possible
  <2>3. answered' = answered \cup {r} /\ sent' = sent /\ SetContent(uiElem[r], new)
    BY <2>1, <2>2 DEF Answer
  <2>. QED
    BY <2>1, <2>2, <2>3, ContentStays DEF Contents
<1>5. ASSUME UNCHANGED vars PROVE Contents'
  BY <1>1, <1>5 DEF vars, requests
<1>. QED
  BY <1>3, <1>4, <1>5 DEF Next

(* The previews in the documents: the error, or a frame of the link.       *)
LEMMA PreviewsAre ==
  ASSUME NEW l \in Links
  PROVE  /\ Previews[l] \subseteq {ParseError} \cup {Frame(l, UNDEFINED, "11em", "45em")}
                                \cup {Frame(l, uri, "10em", "45em") : uri \in {l, UNDEFINED}}
         /\ l \in Own => Previews[l] = {Frame(l, l, "10em", "45em")}
<1>. DEFINE Some == {ParseError} \cup {Frame(l, UNDEFINED, "11em", "45em")}
                    \cup {Frame(l, uri, "10em", "45em") : uri \in {l, UNDEFINED}}
<1>1. Previews[l] = {ParsePreview(xml) : xml \in Documents(l)}
  BY DEF Previews
<1>2. ASSUME NEW shape PROVE ParsePreview(Compact(l, shape)) \in Some
  BY Parsed
<1>3. Previews[l] \subseteq Some
  BY <1>1, <1>2 DEF Documents
<1>4. ASSUME l \in Own PROVE Previews[l] = {Frame(l, l, "10em", "45em")}
  <2>1. Previews[l] = {ParsePreview(Compact(l, AdaptorShape))}
    BY <1>1, <1>4 DEF Documents
  <2>2. ~Refused(AdaptorShape) /\ AdaptorShape.small # NoContent
        /\ "oslc:document" \in AdaptorShape.small
    BY DEF Refused, AdaptorShape, Sized, Parts, Absent, NoContent
  <2>3. ParsePreview(Compact(l, AdaptorShape)) = Frame(l, l, "10em", "45em")
    BY <2>2, Parsed
  <2>. QED
    BY <2>1, <2>3
<1>. QED
  BY <1>3, <1>4

(* Of any number of links, a popover that the pointer has left is about to *)
(* be removed.                                                             *)
THEOREM PopoversGo == Spec => []LeftPopoversGo
<1>1. PopoverInv => LeftPopoversGo
  BY DEF PopoverInv
<1> QED BY <1>1, InitPopover, NextPopover, PTL DEF Spec

(* When one shows, the others that are displayed fade away or were         *)
(* forgotten.                                                              *)
THEOREM OnlyOnePopover == Spec => OnePopover
<1>. DEFINE Shows == \A l \in Links : "shown" \in pending'[l] \ pending[l] =>
                       \A other \in attached \ {l} : Removing(other)
<1>1. PopoverInv /\ [Next]_vars => [Shows]_vars
  BY ShowsAlone
<1>. HIDE DEF Shows
<1>2. Spec => [][Shows]_vars
  BY <1>1, InitPopover, NextPopover, PTL DEF Spec
<1> QED BY <1>2 DEF OnePopover, Shows

(* A displayed popover agrees with the attributes of its link.             *)
THEOREM PopoversAreCurrent == Spec => []PopoverShowsAttributes
<1>1. PopoverInv => PopoverShowsAttributes
  BY DEF PopoverInv
<1> QED BY <1>1, InitPopover, NextPopover, PTL DEF Spec

(* Every variable has its type.                                            *)
THEOREM TypeCorrect == Spec => []TypeOK
<1>1. PopoverInv /\ Contents => TypeOK
  <2>. SUFFICES ASSUME PopoverInv, Contents PROVE TypeOK
    OBVIOUS
  <2>1. \A l \in Links : Possible(l) \subseteq {Loading, ParseError, LoadError} \cup Frames
    <3>. SUFFICES ASSUME NEW l \in Links, NEW shown \in Previews[l]
                  PROVE  shown \in {ParseError} \cup Frames
      BY DEF Possible
    <3>1. \A uri \in {l, UNDEFINED} : Frame(l, uri, "10em", "45em") \in Frames
      BY DEF Frame, Frames
    <3>2. Frame(l, UNDEFINED, "11em", "45em") \in Frames
      BY DEF Frame, Frames
    <3>. QED
      BY <3>1, <3>2, PreviewsAre
  <2>2. \A l \in Links : /\ attrs[l] \in {Loading, ParseError, LoadError} \cup Frames
                         /\ body[l] \in {Loading, ParseError, LoadError} \cup Frames
    BY <2>1 DEF Contents
  <2>3. /\ attrs \in [Links -> {Loading, ParseError, LoadError} \cup Frames]
        /\ body \in [Links -> {Loading, ParseError, LoadError} \cup Frames]
    BY <2>2 DEF PopoverInv, Popovers
  <2>4. sent \in 0..MaxRequests
    <3>1. MaxRequests \in Nat
      BY PreviewAssumption
    <3>2. sent \in Nat /\ sent <= MaxRequests
      BY DEF PopoverInv, Popovers, Contents
    <3>. QED
      BY <3>1, <3>2
  <2>. QED
    BY <2>3, <2>4 DEF TypeOK, PopoverInv, Popovers, Contents
<1>. QED
  BY <1>1, InitPopover, NextPopover, InitContents, NextContents, PTL DEF Spec

(* No link shows another's preview, however many requests run at a time.   *)
THEOREM LinksShowTheirOwn == Spec => []OwnPreview
<1>1. Contents => OwnPreview
  <2>. SUFFICES ASSUME Contents, NEW l \in Links, NEW shown \in Possible(l), shown.content = "frame"
                PROVE  shown.title = l /\ shown.uri \in {l, UNDEFINED}
    BY DEF Contents, OwnPreview
  <2>1. shown \notin {Loading, LoadError, ParseError}
    BY DEF Loading, LoadError, ParseError
  <2>2. \E uri \in {l, UNDEFINED}, height \in {"10em", "11em"} : shown = Frame(l, uri, height, "45em")
    BY <2>1, PreviewsAre DEF Possible
  <2>. QED
    BY <2>2 DEF Frame
<1>. QED
  BY <1>1, InitPopover, NextPopover, InitContents, NextContents, PTL DEF Spec

(* The compact documents of this adaptor are never a parse error.          *)
THEOREM AdaptorPreviewsParse == Spec => []AdaptorPreviewParses
<1>1. Contents => AdaptorPreviewParses
  BY PreviewsAre, PreviewAssumption DEF Contents, AdaptorPreviewParses, Possible
<1>. QED
  BY <1>1, InitPopover, NextPopover, InitContents, NextContents, PTL DEF Spec
=============================================================================
