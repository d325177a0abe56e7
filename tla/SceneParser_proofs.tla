------------------------- MODULE SceneParser_proofs -------------------------
(***************************************************************************)
(* For every set of files: when the program starts, the scene, its flags,  *)
(* its unions and its settings are those of the file.  The invariant says  *)
(* of an item in progress what it holds after the fields read so far, and  *)
(* of each section what it has kept of the items ended so far.             *)
(***************************************************************************)
EXTENDS SceneParser, TLAPS

Content == [value : Values \cup {"unset", "default"}, id : Nat]
Objects == UNION {[Slots(s) -> Content] : s \in Sections}
Vectors == Sections \ {"config"}

(* The definitions of what a file says, up to field m of the item. *)
SaidTo(s, item, m) ==
  {Flag(item[j].key) : j \in {j \in 1 .. m :
     item[j].key \in Known(s) /\ <<item[j].key, item[j].value>> # <<"type", "unknown">>}}

SilentTo(s, item, m, t) == \A j \in 1 .. m : ~Stores(s, item[j], t)

LastTo(s, item, m, t, v) ==
  \E j \in 1 .. m :
    /\ Stores(s, item[j], t) /\ v = Given(item[j])
    /\ \A l \in 1 .. m : l > j => ~Stores(s, item[l], t)

MembersTo(o, s, item, m) ==
  \A t \in Slots(s) :
    IF SilentTo(s, item, m, t) THEN o[t] = Unset ELSE LastTo(s, item, m, t, o[t])

FitTo(s, item, m) == \A j \in 1 .. m : item[j].key \in Known(s) => item[j].value # "unfit"

-----------------------------------------------------------------------------
(* Where the parser is. *)
Place ==
  /\ file \in Files /\ section \in 1 .. Len(file) + 1
  /\ n \in Nat /\ i \in Nat /\ busy \in BOOLEAN
  /\ section \in DOMAIN file /\ Name \in Sections => n <= Len(Items)
  /\ busy => /\ section \in DOMAIN file /\ Name \in Sections
             /\ n \in DOMAIN Items /\ i \in 1 .. Len(Fields) + 1

(* The item it is in. *)
InItem ==
  busy /\ status = "parsing" =>
    /\ got = SaidTo(Name, Fields, i - 1) /\ FitTo(Name, Fields, i - 1)
    /\ IF Name = "config" THEN MembersTo(config, Name, Fields, i - 1)
       ELSE obj \in [Slots(Name) -> Content] /\ MembersTo(obj, Name, Fields, i - 1)

(* How many items of section k have ended. *)
Ended(k) ==
  IF k < section THEN Len(file[k].items)
  ELSE IF k = section THEN (IF busy THEN n - 1 ELSE n) ELSE 0

VectorTo(vec, s, items, m) ==
  /\ {vec[x].place : x \in DOMAIN vec} = {j \in 1 .. m : Complete(s, items[j])}
  /\ \A x \in DOMAIN vec : IsObjectOf(vec[x].obj, s, items[vec[x].place])
  /\ \A x, y \in DOMAIN vec : x < y => vec[x].place < vec[y].place

KeptSoFar ==
  /\ kept \in [Vectors -> Seq([place : Nat, obj : Objects])]
  /\ \A k \in DOMAIN file : file[k].name \in Vectors =>
       VectorTo(kept[file[k].name], file[k].name, file[k].items, Ended(k))

(* The settings: untouched before the section, as it says after it.         *)
SettingsOf(c, item) ==
  /\ \A t \in Slots("config") \ {"horizontal_look_speed"} :
       IF Silent("config", item, t) THEN c[t] = Default
       ELSE LastSays("config", item, t, c[t])
  /\ c["side_move_speed"] = Half(c["forward_move_step"])
  /\ c["vertical_move_speed"] = c["forward_move_step"]

IsSettings(c) == c = [t \in Settings |-> c[t]]

SettingsSoFar ==
  /\ IsSettings(config)
  /\ "config" \in flags => \E k \in DOMAIN file : file[k].name = "config" /\ Ended(k) = 1
  /\ \A k \in DOMAIN file : file[k].name = "config" =>
       /\ Ended(k) = 1 => "config" \in flags /\ SettingsOf(config, file[k].items[1])
       /\ k > section \/ (k = section /\ ~busy /\ n = 0) => \A t \in Settings : config[t] = Unset

Parsing ==
  Place /\ (status = "parsing" => InItem /\ KeptSoFar /\ SettingsSoFar)

-----------------------------------------------------------------------------
(* What one more field adds. *)
Says(s, field) == field.key \in Known(s) /\ <<field.key, field.value>> # <<"type", "unknown">>

LEMMA SaidStep ==
  ASSUME NEW s, NEW item, NEW m \in Nat
  PROVE  /\ Says(s, item[m + 1]) =>
              SaidTo(s, item, m + 1) = SaidTo(s, item, m) \cup {Flag(item[m + 1].key)}
         /\ ~Says(s, item[m + 1]) => SaidTo(s, item, m + 1) = SaidTo(s, item, m)
<1>1. \A k : SaidTo(s, item, k) = {Flag(item[j].key) : j \in {j \in 1 .. k : Says(s, item[j])}}
  BY DEF SaidTo, Says
<1>2. 1 .. m + 1 = (1 .. m) \cup {m + 1}
  OBVIOUS
<1>3. CASE Says(s, item[m + 1])
  <2>1. {j \in 1 .. m + 1 : Says(s, item[j])} = {j \in 1 .. m : Says(s, item[j])} \cup {m + 1}
    BY <1>2, <1>3
  <2>2. QED
    BY <1>1, <1>3, <2>1
<1>4. CASE ~Says(s, item[m + 1])
  <2>1. {j \in 1 .. m + 1 : Says(s, item[j])} = {j \in 1 .. m : Says(s, item[j])}
    BY <1>2, <1>4
  <2>2. QED
    BY <1>1, <1>4, <2>1
<1>5. QED
  BY <1>3, <1>4

LEMMA NoStoreStep ==
  ASSUME NEW s, NEW item, NEW m \in Nat, NEW o,
         MembersTo(o, s, item, m), \A t : ~Stores(s, item[m + 1], t)
  PROVE  MembersTo(o, s, item, m + 1)
<1>1. 1 .. m + 1 = (1 .. m) \cup {m + 1}
  OBVIOUS
<1>2. ASSUME NEW t \in Slots(s)
      PROVE  IF SilentTo(s, item, m + 1, t) THEN o[t] = Unset ELSE LastTo(s, item, m + 1, t, o[t])
  <2>1. SilentTo(s, item, m + 1, t) <=> SilentTo(s, item, m, t)
    BY <1>1 DEF SilentTo
  <2>2. LastTo(s, item, m, t, o[t]) => LastTo(s, item, m + 1, t, o[t])
    BY <1>1 DEF LastTo
  <2>3. QED
    BY <2>1, <2>2 DEF MembersTo
<1>3. QED
  BY <1>2 DEF MembersTo

LEMMA StoreStep ==
  ASSUME NEW s, NEW item, NEW m \in Nat, NEW o, NEW D, o = [t \in D |-> o[t]],
         Slots(s) \subseteq D, MembersTo(o, s, item, m),
         item[m + 1].key \in Known(s), item[m + 1].value # "unknown"
  PROVE  MembersTo([o EXCEPT ![Slot(s, item[m + 1].key)] = Given(item[m + 1])], s, item, m + 1)
<1> DEFINE w == Slot(s, item[m + 1].key)
           p == [o EXCEPT ![w] = Given(item[m + 1])]
<1>1. 1 .. m + 1 = (1 .. m) \cup {m + 1} /\ \A l \in 1 .. m : l < m + 1
  OBVIOUS
<1>2. \A t : Stores(s, item[m + 1], t) <=> t = w
  BY DEF Stores
<1>3. ASSUME NEW t \in Slots(s)
      PROVE  IF SilentTo(s, item, m + 1, t) THEN p[t] = Unset ELSE LastTo(s, item, m + 1, t, p[t])
  <2>1. CASE t = w
    <3>1. p[t] = Given(item[m + 1])
      BY <2>1
    <3>2. Stores(s, item[m + 1], t) /\ m + 1 \in 1 .. m + 1
      BY <1>2, <2>1
    <3>3. \A l \in 1 .. m + 1 : ~(l > m + 1)
      OBVIOUS
    <3>4. LastTo(s, item, m + 1, t, p[t])
      BY <3>1, <3>2, <3>3 DEF LastTo
    <3>5. ~SilentTo(s, item, m + 1, t)
      BY <3>2 DEF SilentTo
    <3>6. QED
      BY <3>4, <3>5
  <2>2. CASE t # w
    <3>1. p[t] = o[t] /\ ~Stores(s, item[m + 1], t)
      BY <1>2, <2>2
    <3>2. SilentTo(s, item, m + 1, t) <=> SilentTo(s, item, m, t)
      BY <1>1, <3>1 DEF SilentTo
    <3>3. LastTo(s, item, m, t, o[t]) => LastTo(s, item, m + 1, t, o[t])
      BY <1>1, <3>1 DEF LastTo
    <3>4. QED
      BY <3>1, <3>2, <3>3 DEF MembersTo
  <2>3. QED
    BY <2>1, <2>2
<1>4. QED
  BY <1>3 DEF MembersTo

-----------------------------------------------------------------------------
(* The tables. *)
LEMMA Tables ==
  /\ \A key \in Known("lights") :
       (Flag(key) = "type" <=> key = "type") /\ (Slot("lights", key) = "type" <=> key = "type")
  /\ \A s \in Figures : "union" \in Known(s) /\ Slot(s, "union") = "union"
  /\ \A s \in Figures : \A key \in Known(s) : Slot(s, key) = "union" => key = "union"
<1>1. \A key \in Known("lights") :
       (Flag(key) = "type" <=> key = "type") /\ (Slot("lights", key) = "type" <=> key = "type")
  BY DEF Known, Flag, Slot, Figures
<1>2. \A s \in Figures : s # "cameras" /\ s # "lights" /\ s # "config"
  BY DEF Figures
<1>3. ASSUME NEW s \in Figures
      PROVE  "union" \in Known(s)
  <2>1. CASE s = "triangles"
    BY <2>1 DEF Known, Common
  <2>2. CASE s # "triangles"
    BY <1>2, <2>2 DEF Known, Common
  <2>3. QED
    BY <2>1, <2>2
<1>4. \A s \in Figures : Slot(s, "union") = "union"
  BY <1>2 DEF Slot, Flag
<1>5. \A s \in Figures : \A key : Slot(s, key) = "union" => key = "union"
  BY <1>2 DEF Slot, Flag
<1>6. QED
  BY <1>1, <1>3, <1>4, <1>5

(* A member that has a default is given together with its flag.             *)
LEMMA DefaultedTable ==
  ASSUME NEW s \in Vectors, NEW key, Slot(s, key) \in Defaulted(s)
  PROVE  Flag(key) = Slot(s, key)
<1>1. "a" \notin Defaulted(s) /\ "vec" \notin Defaulted(s)
  BY DEF Defaulted, Optional
<1>2. s # "config"
  BY DEF Vectors
<1>3. QED
  BY <1>1, <1>2 DEF Slot

(* The tables of the settings. *)
LEMMA ConfigTable ==
  ASSUME NEW key \in Known("config")
  PROVE  /\ key \notin {"color", "type"}
         /\ Slot("config", key) = "forward_move_step" <=> key = "move_speed"
         /\ Flag(key) = "move_speed" <=> key = "move_speed"
         /\ Slot("config", key) = "horizontal_look_speed" <=> key = "look_speed"
         /\ key \notin {"move_speed", "look_speed"} => Slot("config", key) = Flag(key)
         /\ Slot("config", key) \notin {"side_move_speed", "vertical_move_speed",
                                        "vertical_look_speed"}
BY DEF Known, Flag, Slot, Figures

-----------------------------------------------------------------------------
(* All fields of an item. *)
LEMMA WholeItem ==
  ASSUME NEW s, NEW item \in Seq(Field)
  PROVE  /\ SaidTo(s, item, Len(item)) = Said(s, item)
         /\ \A t : SilentTo(s, item, Len(item), t) <=> Silent(s, item, t)
         /\ \A t, v : LastTo(s, item, Len(item), t, v) <=> LastSays(s, item, t, v)
<1>1. DOMAIN item = 1 .. Len(item)
  OBVIOUS
<1>2. SaidTo(s, item, Len(item)) = Said(s, item)
  BY <1>1 DEF SaidTo, Said
<1>3. \A t : SilentTo(s, item, Len(item), t) <=> Silent(s, item, t)
  BY <1>1 DEF SilentTo, Silent
<1>4. \A t, v : LastTo(s, item, Len(item), t, v) <=> LastSays(s, item, t, v)
  BY <1>1 DEF LastTo, LastSays
<1>5. QED
  BY <1>2, <1>3, <1>4

LEMMA Element ==
  ASSUME NEW S, NEW q \in Seq(S), NEW k \in DOMAIN q
  PROVE  q[k] \in S
OBVIOUS

(* What the assumption says of an item. *)
LEMMA ItemFacts ==
  ASSUME NEW f \in Files, NEW k \in DOMAIN f, NEW m \in DOMAIN f[k].items
  PROVE  /\ f \in Seq([name : STRING, items : Seq(Seq(Field))])
         /\ f[k].name \in STRING
         /\ f[k].items \in Seq(Seq(Field)) /\ f[k].items[m] \in Seq(Field)
         /\ \A j \in DOMAIN f[k].items[m] : LET field == f[k].items[m][j] IN
              /\ field \in Field /\ Given(field) \in Content
              /\ field.value = "unknown" => field.key \in {"color", "type"}
              /\ field.key = "type" => field.value # "fit"
<1>1. f \in Seq([name : STRING, items : Seq(Seq(Field))])
  BY FilesAssumption DEF File
<1>2. f[k] \in [name : STRING, items : Seq(Seq(Field))]
  BY <1>1, Element
<1>3. f[k].items \in Seq(Seq(Field)) /\ f[k].name \in STRING
  BY <1>2
<1>4. f[k].items[m] \in Seq(Field)
  BY <1>3, Element
<1>5. \A j \in DOMAIN f[k].items[m] : f[k].items[m][j] \in Field
  BY <1>4
<1>6. ASSUME NEW field \in Field
      PROVE  Given(field) \in Content
  <2>1. field.value \in Values /\ field.id \in Nat
    BY DEF Field
  <2>2. QED
    BY <2>1 DEF Given, Content
<1>7. QED
  BY <1>1, <1>3, <1>4, <1>5, <1>6, FilesAssumption

(* Two fields cannot both be the last. *)
LEMMA OneLast ==
  ASSUME NEW s, NEW item \in Seq(Field), NEW t, NEW u, NEW v,
         LastSays(s, item, t, u), LastSays(s, item, t, v)
  PROVE  u = v
<1>1. PICK j \in DOMAIN item :
        Stores(s, item[j], t) /\ u = Given(item[j])
        /\ \A l \in DOMAIN item : l > j => ~Stores(s, item[l], t)
  BY DEF LastSays
<1>2. PICK k \in DOMAIN item :
        Stores(s, item[k], t) /\ v = Given(item[k])
        /\ \A l \in DOMAIN item : l > k => ~Stores(s, item[l], t)
  BY DEF LastSays
<1>3. j \in Nat /\ k \in Nat
  OBVIOUS
<1>4. j = k
  BY <1>1, <1>2, <1>3
<1>5. QED
  BY <1>1, <1>2, <1>4

(* The type a light has is the one its item says. *)
LEMMA LightType ==
  ASSUME NEW f \in Files, NEW k \in DOMAIN f, NEW m \in DOMAIN f[k].items,
         f[k].name = "lights", NEW o,
         MembersTo(o, "lights", f[k].items[m], Len(f[k].items[m])),
         FitTo("lights", f[k].items[m], Len(f[k].items[m])),
         "type" \in Said("lights", f[k].items[m])
  PROVE  /\ o["type"].value \in LightTypes
         /\ \A type : TypeIs(f[k].items[m], type) <=> o["type"].value = type
<1> DEFINE item == f[k].items[m]
<1>1. item \in Seq(Field)
  BY ItemFacts
<1>2. DOMAIN item = 1 .. Len(item)
  BY <1>1
<1>3. "type" \in Known("lights") /\ "type" \in Slots("lights")
  BY DEF Known, Figures, Slots, Slot, Flag
<1>4. PICK j \in DOMAIN item : item[j].key = "type" /\ item[j].value # "unknown"
  BY Tables DEF Said
<1>5. Stores("lights", item[j], "type")
  BY <1>3, <1>4, Tables DEF Stores
<1>6. LastSays("lights", item, "type", o["type"])
  BY <1>1, <1>2, <1>3, <1>5, WholeItem DEF MembersTo, SilentTo
<1>7. PICK l \in DOMAIN item : Stores("lights", item[l], "type") /\ o["type"] = Given(item[l])
  BY <1>6 DEF LastSays
<1>8. item[l].key = "type" /\ item[l].value # "unknown"
  BY <1>7, Tables DEF Stores
<1>9. item[l].value # "unfit"
  BY <1>2, <1>3, <1>8 DEF FitTo
<1>10. item[l] \in Field /\ item[l].value # "fit"
  BY <1>8, ItemFacts
<1>11. o["type"] = [value |-> item[l].value, id |-> item[l].id] /\ item[l].value \in LightTypes
  BY <1>7, <1>8, <1>9, <1>10 DEF Given, Field, Values
<1>12. ASSUME NEW type, o["type"].value = type
       PROVE  TypeIs(item, type)
  BY <1>6, <1>11, <1>12 DEF TypeIs
<1>13. ASSUME NEW type, TypeIs(item, type)
       PROVE  o["type"].value = type
  <2>1. PICK x : LastSays("lights", item, "type", [value |-> type, id |-> x])
    BY <1>13 DEF TypeIs
  <2>2. o["type"] = [value |-> type, id |-> x]
    BY <1>1, <1>6, <2>1, OneLast
  <2>3. QED
    BY <2>2
<1>14. QED
  BY <1>11, <1>12, <1>13

-----------------------------------------------------------------------------
(* The position and the item, in a state. *)
LEMMA Here ==
  ASSUME Place, section \in DOMAIN file, n \in DOMAIN Items
  PROVE  /\ Fields \in Seq(Field) /\ DOMAIN Fields = 1 .. Len(Fields) /\ Len(Fields) \in Nat
         /\ Items \in Seq(Seq(Field)) /\ DOMAIN Items = 1 .. Len(Items)
         /\ \A j \in DOMAIN Fields :
              /\ Fields[j] \in Field /\ Given(Fields[j]) \in Content
              /\ Fields[j].value = "unknown" => Fields[j].key \in {"color", "type"}
              /\ Fields[j].key = "type" => Fields[j].value # "fit"
<1>1. file \in Files
  BY DEF Place
<1>2. Fields \in Seq(Field) /\ Items \in Seq(Seq(Field))
  BY <1>1, ItemFacts DEF Fields, Items
<1>3. DOMAIN Fields = 1 .. Len(Fields) /\ Len(Fields) \in Nat /\ DOMAIN Items = 1 .. Len(Items)
  BY <1>2
<1>4. QED
  BY <1>1, <1>2, <1>3, ItemFacts DEF Fields, Items

LEMMA SectionFacts ==
  ASSUME Place
  PROVE  /\ file \in Files /\ Len(file) \in Nat /\ DOMAIN file = 1 .. Len(file)
         /\ \A k \in DOMAIN file :
              /\ file[k].items \in Seq(Seq(Field)) /\ Len(file[k].items) \in Nat
              /\ DOMAIN file[k].items = 1 .. Len(file[k].items)
              /\ file[k].name = "config" => Len(file[k].items) = 1
              /\ \A l \in DOMAIN file : file[k].name = file[l].name => k = l
<1>1. file \in Files
  BY DEF Place
<1>2. file \in Seq([name : STRING, items : Seq(Seq(Field))])
  BY <1>1, FilesAssumption DEF File
<1>3. Len(file) \in Nat /\ DOMAIN file = 1 .. Len(file)
  BY <1>2
<1>4. ASSUME NEW k \in DOMAIN file
      PROVE  /\ file[k].items \in Seq(Seq(Field)) /\ Len(file[k].items) \in Nat
             /\ DOMAIN file[k].items = 1 .. Len(file[k].items)
  <2>1. file[k] \in [name : STRING, items : Seq(Seq(Field))]
    BY <1>2, Element
  <2>2. file[k].items \in Seq(Seq(Field))
    BY <2>1
  <2>3. QED
    BY <2>2
<1>5. QED
  BY <1>1, <1>3, <1>4, FilesAssumption

(* An item is kept if it is complete, and as what it says. *)
LEMMA KeptIsComplete ==
  ASSUME Place, InItem, busy, status = "parsing", i \notin DOMAIN Fields, Name # "config"
  PROVE  /\ IsKept <=> Complete(Name, Fields)
         /\ IsObjectOf(WithDefaults, Name, Fields)
         /\ WithDefaults \in [Slots(Name) -> Content]
<1>1. /\ Fields \in Seq(Field) /\ Len(Fields) \in Nat /\ i - 1 = Len(Fields)
      /\ section \in DOMAIN file /\ n \in DOMAIN Items /\ file \in Files /\ Name \in Vectors
  BY Here DEF Place, Vectors
<1>2. /\ got = SaidTo(Name, Fields, Len(Fields)) /\ FitTo(Name, Fields, Len(Fields))
      /\ obj \in [Slots(Name) -> Content] /\ MembersTo(obj, Name, Fields, Len(Fields))
  BY <1>1 DEF InItem
<1>3. got = Said(Name, Fields)
  BY <1>1, <1>2, WholeItem
<1>4. IsKept <=> Complete(Name, Fields)
  <2>1. CASE Name # "lights"
    BY <1>3, <2>1 DEF IsKept, Complete
  <2>2. CASE Name = "lights" /\ Required(Name) \subseteq got
    <3>1. "type" \in got
      BY <2>2 DEF Required, Figures
    <3>2. /\ obj["type"].value \in LightTypes
          /\ \A type : TypeIs(Fields, type) <=> obj["type"].value = type
      BY <1>1, <1>2, <1>3, <2>2, <3>1, LightType DEF Name, Items, Fields
    <3>3. LightKept <=> \/ TypeIs(Fields, "ambient")
                        \/ TypeIs(Fields, "point") /\ "position" \in got /\ "direction" \notin got
                        \/ TypeIs(Fields, "direct") /\ "direction" \in got /\ "position" \notin got
      BY <3>2 DEF LightKept, LightTypes
    <3>4. QED
      BY <1>3, <2>2, <3>3 DEF IsKept, Complete
  <2>3. CASE ~(Required(Name) \subseteq got)
    BY <1>3, <2>3 DEF IsKept, Complete
  <2>4. QED
    BY <2>1, <2>2, <2>3
<1>5. DOMAIN obj = Slots(Name) /\ DOMAIN WithDefaults = Slots(Name)
  BY <1>2 DEF WithDefaults
<1>6. ASSUME NEW t \in Slots(Name)
      PROVE  IF Silent(Name, Fields, t)
             THEN WithDefaults[t] = IF t \in Defaulted(Name) \ Said(Name, Fields) THEN Default ELSE Unset
             ELSE LastSays(Name, Fields, t, WithDefaults[t])
  <2>1. WithDefaults[t] = IF t \in Defaulted(Name) \ got THEN Default ELSE obj[t]
    BY <1>5 DEF WithDefaults
  <2>2. CASE Silent(Name, Fields, t)
    <3>1. obj[t] = Unset
      BY <1>1, <1>2, <2>2, WholeItem DEF MembersTo
    <3>2. QED
      BY <1>3, <2>1, <2>2, <3>1
  <2>3. CASE ~Silent(Name, Fields, t)
    <3>1. LastSays(Name, Fields, t, obj[t])
      BY <1>1, <1>2, <2>3, WholeItem DEF MembersTo
    <3>2. PICK j \in DOMAIN Fields : Stores(Name, Fields[j], t)
      BY <2>3 DEF Silent
    <3>3. Flag(Fields[j].key) \in got
      BY <1>3, <3>2 DEF Stores, Said
    <3>4. t \in Defaulted(Name) => t \in got
      BY <1>1, <3>2, <3>3, DefaultedTable DEF Stores
    <3>5. QED
      BY <2>1, <2>3, <3>1, <3>4
  <2>4. QED
    BY <2>2, <2>3
<1>7. \A t \in Slots(Name) : WithDefaults[t] \in Content
  BY <1>2, <1>5 DEF WithDefaults, Default, Content
<1>8. WithDefaults = [t \in Slots(Name) |-> WithDefaults[t]]
  BY <1>5 DEF WithDefaults
<1>9. QED
  BY <1>4, <1>5, <1>6, <1>7, <1>8 DEF IsObjectOf

-----------------------------------------------------------------------------
(* The invariant, one lemma for each action. *)
LEMMA InitParsing ==
  ASSUME Init
  PROVE  Parsing
<1>1. Place
  <2>1. file \in Seq([name : STRING, items : Seq(Seq(Field))])
    BY FilesAssumption DEF Init, File
  <2>2. Len(file) \in Nat /\ (section \in DOMAIN file => Items \in Seq(Seq(Field)))
    <3>1. ASSUME section \in DOMAIN file
          PROVE  Items \in Seq(Seq(Field))
      <4>1. file[section] \in [name : STRING, items : Seq(Seq(Field))]
        BY <2>1, <3>1, Element
      <4>2. QED
        BY <4>1 DEF Items
    <3>2. QED
      BY <2>1, <3>1
  <2>3. section \in DOMAIN file => 0 <= Len(Items)
    BY <2>2
  <2>4. file \in Files /\ section = 1 /\ n = 0 /\ i = 1 /\ busy = FALSE
    BY DEF Init
  <2>5. section \in 1 .. Len(file) + 1
    BY <2>2, <2>4
  <2>6. QED
    BY <2>3, <2>4, <2>5 DEF Place
<1>2. InItem
  BY DEF Init, InItem
<1>3. \A k \in DOMAIN file : Ended(k) = 0
  BY <1>1, SectionFacts DEF Init, Ended
<1>4. KeptSoFar
  <2>1. kept \in [Vectors -> Seq([place : Nat, obj : Objects])]
    BY DEF Init, Vectors
  <2>2. ASSUME NEW s \in Vectors, NEW items
        PROVE  VectorTo(kept[s], s, items, 0)
    <3>1. kept[s] = <<>>
      BY DEF Init, Vectors
    <3>2. DOMAIN kept[s] = {} /\ 1 .. 0 = {}
      BY <3>1
    <3>3. QED
      BY <3>2 DEF VectorTo
  <2>3. QED
    BY <1>3, <2>1, <2>2 DEF KeptSoFar
<1>5. SettingsSoFar
  <2>1. IsSettings(config) /\ \A t \in Settings : config[t] = Unset
    BY DEF Init, IsSettings
  <2>2. "config" \notin flags
    BY DEF Init
  <2>3. QED
    BY <1>3, <2>1, <2>2 DEF SettingsSoFar
<1>6. QED
  BY <1>1, <1>2, <1>4, <1>5 DEF Parsing

LEMMA BeginItemStep ==
  ASSUME Parsing, BeginItem
  PROVE  Parsing'
<1>1. Place /\ InItem /\ KeptSoFar /\ SettingsSoFar
  BY DEF Parsing, BeginItem
<1>2. /\ section \in DOMAIN file /\ Name \in Sections /\ n \in Nat /\ n < Len(Items)
      /\ Items \in Seq(Seq(Field)) /\ DOMAIN Items = 1 .. Len(Items) /\ Len(Items) \in Nat
  BY <1>1, SectionFacts DEF BeginItem, Place, Items
<1>3. /\ file' = file /\ section' = section /\ n' = n + 1 /\ i' = 1 /\ busy' = TRUE
      /\ kept' = kept /\ flags' = flags /\ config' = config /\ Name' = Name /\ Items' = Items
  BY DEF BeginItem, Name, Items
<1>4. n + 1 \in DOMAIN Items
  BY <1>2
<1>5. Fields' = Items[n + 1] /\ Fields' \in Seq(Field)
  BY <1>2, <1>3, <1>4, Element DEF Fields
<1>6. Place'
  BY <1>1, <1>2, <1>3, <1>4, <1>5 DEF Place
<1>7. \A k \in DOMAIN file : Ended(k)' = Ended(k)
  BY <1>2, <1>3 DEF Ended, BeginItem
<1>8. KeptSoFar'
  BY <1>1, <1>3, <1>7 DEF KeptSoFar
<1>9. SettingsSoFar'
  BY <1>1, <1>2, <1>3, <1>7, SectionFacts DEF SettingsSoFar, BeginItem
<1>10. InItem'
  <2>1. 1 .. (1 - 1) = {}
    OBVIOUS
  <2>2. \A s, item : SaidTo(s, item, 1 - 1) = {} /\ FitTo(s, item, 1 - 1)
    BY <2>1 DEF SaidTo, FitTo
  <2>3. \A o, s, item : (\A t \in Slots(s) : o[t] = Unset) => MembersTo(o, s, item, 1 - 1)
    BY <2>1 DEF MembersTo, SilentTo
  <2>4. CASE Name = "config"
    <3>0. Len(Items) = 1
      BY <1>1, <1>2, <2>4, SectionFacts DEF Name, Items
    <3>1. n = 0
      BY <1>2, <3>0
    <3>2. \A t \in Settings : config[t] = Unset
      BY <1>1, <1>2, <2>4, <3>1 DEF SettingsSoFar, BeginItem, Name
    <3>3. MembersTo(config, Name, Fields', 1 - 1)
      BY <2>3, <2>4, <3>2 DEF Settings
    <3>4. QED
      BY <1>3, <2>2, <2>4, <3>3 DEF InItem, BeginItem, Bitmap
  <2>5. CASE Name # "config"
    <3>1. obj' = [t \in Slots(Name) |-> Unset]
      BY DEF BeginItem
    <3>2. obj' \in [Slots(Name) -> Content] /\ MembersTo(obj', Name, Fields', 1 - 1)
      BY <2>3, <3>1 DEF Unset, Content
    <3>3. QED
      BY <1>3, <2>2, <2>5, <3>2 DEF InItem, BeginItem, Bitmap
  <2>6. QED
    BY <2>4, <2>5
<1>11. QED
  BY <1>6, <1>8, <1>9, <1>10 DEF Parsing

LEMMA EndSectionStep ==
  ASSUME Parsing, EndSection
  PROVE  Parsing'
<1>1. Place /\ InItem /\ KeptSoFar /\ SettingsSoFar
  BY DEF Parsing, EndSection
<1>2. /\ section \in DOMAIN file /\ ~busy /\ n \in Nat /\ (Name \in Sections => n = Len(Items))
      /\ file' = file /\ section' = section + 1 /\ n' = 0 /\ busy' = FALSE /\ i' = i
      /\ kept' = kept /\ flags' = flags /\ config' = config
  BY <1>1 DEF EndSection, Place
<1>3. section' \in 1 .. Len(file) + 1 /\ section \in Nat
  BY <1>1, <1>2, SectionFacts
<1>4. Place'
  <2>1. section' \in DOMAIN file => 0 <= Len(Items')
    <3>1. \A k \in DOMAIN file : 0 <= Len(file[k].items)
      BY <1>1, SectionFacts
    <3>2. QED
      BY <1>2, <3>1 DEF Items
  <2>2. file \in Files /\ i \in Nat
    BY <1>1 DEF Place
  <2>3. QED
    BY <1>2, <1>3, <2>1, <2>2 DEF Place
<1>5. \A k \in DOMAIN file : file[k].name \in Sections => Ended(k)' = Ended(k)
  BY <1>1, <1>2, <1>3, SectionFacts DEF Ended, Name, Items
<1>6. KeptSoFar'
  BY <1>1, <1>2, <1>5 DEF KeptSoFar, Vectors
<1>7. SettingsSoFar'
  <2>1. "config" \in Sections
    BY DEF Sections
  <2>2. QED
    BY <1>1, <1>2, <1>3, <1>5, <2>1, SectionFacts DEF SettingsSoFar
<1>8. QED
  BY <1>2, <1>4, <1>6, <1>7 DEF Parsing, InItem

LEMMA ParseFieldStep ==
  ASSUME Parsing, ParseField
  PROVE  Parsing'
<1>1. Place /\ InItem /\ KeptSoFar /\ SettingsSoFar
  BY DEF Parsing, ParseField
<1>2. /\ status = "parsing" /\ busy /\ i \in DOMAIN Fields
      /\ file' = file /\ section' = section /\ n' = n /\ busy' = busy
      /\ kept' = kept /\ flags' = flags
      /\ Name' = Name /\ Items' = Items /\ Fields' = Fields
  BY DEF ParseField, Name, Items, Fields
<1>3. /\ section \in DOMAIN file /\ Name \in Sections /\ n \in DOMAIN Items
      /\ DOMAIN Fields = 1 .. Len(Fields) /\ Len(Fields) \in Nat /\ i \in Nat
      /\ Fields[i] \in Field /\ Given(Fields[i]) \in Content
      /\ Fields[i].value = "unknown" => Fields[i].key \in {"color", "type"}
  BY <1>1, <1>2, Here DEF Place
<1>4. i' \in {i, i + 1}
  BY DEF ParseField, Skip, Throw, Unknown, Store
<1>5. Place'
  BY <1>1, <1>2, <1>3, <1>4 DEF Place
<1>6. \A k : Ended(k)' = Ended(k)
  BY <1>2 DEF Ended
<1>7. KeptSoFar'
  BY <1>1, <1>2, <1>6 DEF KeptSoFar
<1>8. PICK m \in Nat : i = m + 1
  BY <1>2, <1>3
<1>9. (i + 1) - 1 = m + 1 /\ i - 1 = m /\ 1 .. m + 1 = (1 .. m) \cup {m + 1}
  BY <1>8
<1>10. /\ got = SaidTo(Name, Fields, m) /\ FitTo(Name, Fields, m)
       /\ IF Name = "config" THEN MembersTo(config, Name, Fields, m)
          ELSE obj \in [Slots(Name) -> Content] /\ MembersTo(obj, Name, Fields, m)
  BY <1>1, <1>2, <1>9 DEF InItem
<1>11. IsSettings(config)
  BY <1>1 DEF SettingsSoFar
(* The settings change only in their section, which is not left before.     *)
<1>12. ASSUME IsSettings(config'), config' = config \/ Name = "config"
       PROVE  SettingsSoFar'
  <2>1. "config" \in flags => \E k \in DOMAIN file : file[k].name = "config" /\ Ended(k) = 1
    BY <1>1 DEF SettingsSoFar
  <2>2. ASSUME NEW k \in DOMAIN file, file[k].name = "config"
        PROVE  /\ Ended(k) = 1 => "config" \in flags /\ SettingsOf(config', file[k].items[1])
               /\ k > section \/ (k = section /\ ~busy /\ n = 0) =>
                    \A t \in Settings : config'[t] = Unset
    <3>1. CASE Name = "config"
      <4>1. k = section /\ Len(Items) = 1
        BY <1>1, <1>3, <2>2, <3>1, SectionFacts DEF Name, Items
      <4>2. n = 1
        BY <1>1, <1>3, <4>1, SectionFacts DEF Items
      <4>3. Ended(k) = 0
        BY <1>2, <1>3, <1>1, <4>1, <4>2, SectionFacts DEF Ended
      <4>4. QED
        BY <1>1, <1>2, <4>1, <4>3, SectionFacts
    <3>2. CASE config' = config
      BY <1>1, <2>2, <3>2 DEF SettingsSoFar
    <3>3. QED
      BY <1>12, <3>1, <3>2
  <2>3. QED
    BY <1>2, <1>6, <1>12, <2>1, <2>2 DEF SettingsSoFar
<1>13. CASE Fields[i].key \notin Known(Name)
  <2>1. i' = i + 1 /\ obj' = obj /\ got' = got /\ config' = config /\ status' = status
    BY <1>13 DEF ParseField, Skip
  <2>2. ~Says(Name, Fields[m + 1]) /\ \A t : ~Stores(Name, Fields[m + 1], t)
    BY <1>8, <1>13 DEF Says, Stores
  <2>3. got = SaidTo(Name, Fields, m + 1) /\ FitTo(Name, Fields, m + 1)
    BY <1>8, <1>9, <1>10, <1>13, <2>2, SaidStep DEF FitTo
  <2>4. \A o : MembersTo(o, Name, Fields, m) => MembersTo(o, Name, Fields, m + 1)
    BY <2>2, NoStoreStep
  <2>5. InItem'
    BY <1>2, <1>9, <1>10, <2>1, <2>3, <2>4 DEF InItem
  <2>6. QED
    BY <1>5, <1>7, <1>11, <1>12, <2>1, <2>5 DEF Parsing
<1>14. CASE Fields[i].key \in Known(Name) /\ Fields[i].value = "unfit"
  <2>1. status' = "failed"
    BY <1>14 DEF ParseField, Throw
  <2>2. QED
    BY <1>5, <2>1 DEF Parsing
<1>15. CASE Fields[i].key \in Known(Name) /\ Fields[i].value = "unknown"
  <2>1. /\ i' = i + 1 /\ obj' = obj /\ config' = config /\ status' = status
        /\ got' = IF Fields[i].key = "type" THEN got ELSE got \cup {Flag(Fields[i].key)}
    BY <1>15 DEF ParseField, Unknown
  <2>2. \A t : ~Stores(Name, Fields[m + 1], t)
    BY <1>8, <1>15 DEF Stores
  <2>3. Says(Name, Fields[m + 1]) <=> Fields[i].key # "type"
    BY <1>8, <1>15 DEF Says
  <2>4. got' = SaidTo(Name, Fields, m + 1)
    BY <1>8, <1>10, <2>1, <2>3, SaidStep
  <2>5. FitTo(Name, Fields, m + 1)
    BY <1>8, <1>9, <1>10, <1>15 DEF FitTo
  <2>6. \A o : MembersTo(o, Name, Fields, m) => MembersTo(o, Name, Fields, m + 1)
    BY <2>2, NoStoreStep
  <2>7. InItem'
    BY <1>2, <1>9, <1>10, <2>1, <2>4, <2>5, <2>6 DEF InItem
  <2>8. QED
    BY <1>5, <1>7, <1>11, <1>12, <2>1, <2>7 DEF Parsing
<1>16. CASE Fields[i].key \in Known(Name) /\ Fields[i].value \notin {"unfit", "unknown"}
  <2>1. /\ i' = i + 1 /\ status' = status
        /\ got' = got \cup {Flag(Fields[i].key)}
        /\ IF Name = "config"
           THEN config' = [config EXCEPT ![Slot(Name, Fields[i].key)] = Given(Fields[i])] /\ obj' = obj
           ELSE obj' = [obj EXCEPT ![Slot(Name, Fields[i].key)] = Given(Fields[i])] /\ config' = config
    BY <1>16 DEF ParseField, Store
  <2>2. Says(Name, Fields[m + 1])
    BY <1>8, <1>16 DEF Says
  <2>3. got' = SaidTo(Name, Fields, m + 1)
    BY <1>8, <1>10, <2>1, <2>2, SaidStep
  <2>4. FitTo(Name, Fields, m + 1)
    BY <1>8, <1>9, <1>10, <1>16 DEF FitTo
  <2>5. CASE Name = "config"
    <3>1. Slots(Name) \subseteq Settings
      BY <2>5 DEF Settings
    <3>2. MembersTo(config', Name, Fields, m + 1)
      <4>1. Fields[m + 1].key \in Known(Name) /\ Fields[m + 1].value # "unknown"
        BY <1>8, <1>16
      <4>2. MembersTo(config, Name, Fields, m)
        BY <1>10, <2>5
      <4>3. MembersTo([config EXCEPT ![Slot(Name, Fields[m + 1].key)] = Given(Fields[m + 1])],
                      Name, Fields, m + 1)
        BY <1>11, <3>1, <4>1, <4>2, StoreStep DEF IsSettings
      <4>4. QED
        BY <1>8, <2>1, <2>5, <4>3
    <3>3. IsSettings(config')
      BY <1>3, <1>11, <2>1, <2>5 DEF IsSettings
    <3>4. InItem'
      BY <1>2, <1>9, <2>1, <2>3, <2>4, <2>5, <3>2 DEF InItem
    <3>5. QED
      BY <1>5, <1>7, <1>12, <2>5, <3>3, <3>4 DEF Parsing
  <2>6. CASE Name # "config"
    <3>1. MembersTo(obj', Name, Fields, m + 1)
      <4>1. Fields[m + 1].key \in Known(Name) /\ Fields[m + 1].value # "unknown"
        BY <1>8, <1>16
      <4>2. obj \in [Slots(Name) -> Content] /\ MembersTo(obj, Name, Fields, m)
        BY <1>10, <2>6
      <4>3. MembersTo([obj EXCEPT ![Slot(Name, Fields[m + 1].key)] = Given(Fields[m + 1])],
                      Name, Fields, m + 1)
        BY <4>1, <4>2, StoreStep
      <4>4. QED
        BY <1>8, <2>1, <2>6, <4>3
    <3>2. obj' \in [Slots(Name) -> Content]
      BY <1>3, <1>10, <2>1, <2>6
    <3>3. InItem'
      BY <1>2, <1>9, <2>1, <2>3, <2>4, <2>6, <3>1, <3>2 DEF InItem
    <3>4. QED
      BY <1>5, <1>7, <1>11, <1>12, <2>1, <2>6, <3>3 DEF Parsing
  <2>7. QED
    BY <2>5, <2>6
<1>17. QED
  BY <1>13, <1>14, <1>15, <1>16

(* The settings parse_config leaves are those of its item. *)
LEMMA ConfigSetOK ==
  ASSUME Place, InItem, busy, status = "parsing", i \notin DOMAIN Fields, Name = "config",
         IsSettings(config)
  PROVE  IsSettings(ConfigSet) /\ SettingsOf(ConfigSet, Fields)
<1>1. /\ Fields \in Seq(Field) /\ Len(Fields) \in Nat /\ i - 1 = Len(Fields)
      /\ section \in DOMAIN file /\ n \in DOMAIN Items
  BY Here DEF Place
<1>2. got = Said("config", Fields)
  BY <1>1, WholeItem DEF InItem
<1>3. \A t \in Slots("config") : ~Silent("config", Fields, t) => LastSays("config", Fields, t, config[t])
  BY <1>1, WholeItem DEF InItem, MembersTo
<1>4. \A j \in DOMAIN Fields : Fields[j].key \in Known("config") =>
        Fields[j].value # "unknown" /\ Fields[j].key # "type"
  BY <1>1, ConfigTable, Here
<1>5. "move_speed" \in got <=> ~Silent("config", Fields, "forward_move_step")
  BY <1>2, <1>4, ConfigTable DEF Said, Silent, Stores
<1>6. ASSUME NEW t \in Slots("config") \ {"horizontal_look_speed", "forward_move_step"}
      PROVE  t \in got <=> ~Silent("config", Fields, t)
  <2>1. \A key \in Known("config") : Slot("config", key) = t => Flag(key) = t
    BY ConfigTable
  <2>2. \A key \in Known("config") : Flag(key) = t => Slot("config", key) = t
    <3>1. t # "move_speed" /\ t # "look_speed"
      BY DEF Slots, Slot, Known, Flag, Figures
    <3>2. \A key : Flag(key) = t /\ t # "look_speed" /\ t # "move_speed"
                   => key # "move_speed" /\ key # "look_speed"
      BY DEF Flag
    <3>3. QED
      BY <3>1, <3>2, ConfigTable
  <2>3. t \in got <=> \E j \in DOMAIN Fields : Fields[j].key \in Known("config") /\ Flag(Fields[j].key) = t
    BY <1>2, <1>4 DEF Said
  <2>4. QED
    BY <1>4, <2>1, <2>2, <2>3 DEF Silent, Stores
<1>7. IsSettings(ConfigSet)
  BY DEF IsSettings, ConfigSet
<1>8. {"forward_move_step", "side_move_speed", "vertical_move_speed"} \subseteq Settings
  BY DEF Settings, Slots, Slot, Known, Flag, Figures
<1>9. /\ ConfigSet["side_move_speed"] = Half(ConfigSet["forward_move_step"])
      /\ ConfigSet["vertical_move_speed"] = ConfigSet["forward_move_step"]
      /\ ConfigSet["forward_move_step"] =
           IF "move_speed" \in got THEN config["forward_move_step"] ELSE Default
  BY <1>8 DEF ConfigSet
<1>10. ASSUME NEW t \in Slots("config") \ {"horizontal_look_speed"}
       PROVE  IF Silent("config", Fields, t) THEN ConfigSet[t] = Default
              ELSE LastSays("config", Fields, t, ConfigSet[t])
  <2>1. CASE t = "forward_move_step"
    BY <1>3, <1>5, <1>9, <2>1
  <2>2. CASE t # "forward_move_step"
    <3>1. t \in Settings /\ t \notin {"side_move_speed", "vertical_move_speed", "vertical_look_speed"}
      BY ConfigTable DEF Settings, Slots
    <3>2. ConfigSet[t] = IF t \in got THEN config[t] ELSE Default
      BY <2>2, <3>1 DEF ConfigSet, Setting
    <3>3. QED
      BY <1>3, <1>6, <2>2, <3>2
  <2>3. QED
    BY <2>1, <2>2
<1>11. QED
  BY <1>7, <1>9, <1>10 DEF SettingsOf

LEMMA EndConfigStep ==
  ASSUME Parsing, EndConfig
  PROVE  Parsing'
<1>1. Place /\ InItem /\ KeptSoFar /\ SettingsSoFar
  BY DEF Parsing, EndConfig
<1>2. /\ status = "parsing" /\ busy /\ i \notin DOMAIN Fields /\ Name = "config"
      /\ config' = ConfigSet /\ flags' = flags \cup {"config"} /\ busy' = FALSE
      /\ file' = file /\ section' = section /\ n' = n /\ i' = i /\ kept' = kept
      /\ Name' = Name /\ Items' = Items
  BY DEF EndConfig, Name, Items
<1>3. section \in DOMAIN file /\ n \in 1 .. 1 /\ Len(Items) = 1 /\ section \in Nat
  <2>1. section \in DOMAIN file /\ n \in DOMAIN Items
    BY <1>1, <1>2 DEF Place
  <2>2. Len(Items) = 1 /\ DOMAIN Items = 1 .. Len(Items)
    BY <1>1, <1>2, <2>1, SectionFacts DEF Name, Items
  <2>3. QED
    BY <1>1, <2>1, <2>2, SectionFacts
<1>4. Place'
  BY <1>1, <1>2, <1>3 DEF Place
<1>5. \A k \in DOMAIN file : k # section => Ended(k)' = Ended(k)
  BY <1>2 DEF Ended
<1>6. Ended(section)' = 1
  BY <1>2, <1>3 DEF Ended
<1>7. \A k \in DOMAIN file : file[k].name = "config" <=> k = section
  BY <1>1, <1>2, <1>3, SectionFacts DEF Name
<1>8. KeptSoFar'
  BY <1>1, <1>2, <1>5, <1>7 DEF KeptSoFar, Vectors
<1>9. SettingsSoFar'
  <2>1. Items[1] = Fields
    BY <1>3 DEF Fields
  <2>2. IsSettings(config') /\ SettingsOf(config', file[section].items[1])
    BY <1>1, <1>2, <2>1, ConfigSetOK DEF SettingsSoFar, Items
  <2>3. QED
    BY <1>2, <1>3, <1>6, <1>7, <2>2 DEF SettingsSoFar
<1>10. QED
  BY <1>2, <1>4, <1>8, <1>9 DEF Parsing, InItem

(* A vector after item m, which is put at its end or dropped.               *)
LEMMA VectorDrop ==
  ASSUME NEW vec, NEW s, NEW items, NEW m \in Nat \ {0},
         VectorTo(vec, s, items, m - 1), ~Complete(s, items[m])
  PROVE  VectorTo(vec, s, items, m)
<1>1. 1 .. m = (1 .. m - 1) \cup {m}
  OBVIOUS
<1>2. {j \in 1 .. m : Complete(s, items[j])} = {j \in 1 .. m - 1 : Complete(s, items[j])}
  BY <1>1
<1>3. QED
  BY <1>2 DEF VectorTo

LEMMA VectorAppend ==
  ASSUME NEW vec \in Seq([place : Nat, obj : Objects]), NEW s, NEW items, NEW m \in Nat \ {0},
         NEW o \in Objects,
         VectorTo(vec, s, items, m - 1), Complete(s, items[m]), IsObjectOf(o, s, items[m])
  PROVE  /\ VectorTo(Append(vec, [place |-> m, obj |-> o]), s, items, m)
         /\ Append(vec, [place |-> m, obj |-> o]) \in Seq([place : Nat, obj : Objects])
<1> DEFINE e == [place |-> m, obj |-> o]
           long == Append(vec, e)
<1>1. 1 .. m = (1 .. m - 1) \cup {m}
  OBVIOUS
<1>2. e \in [place : Nat, obj : Objects] /\ e.place = m /\ e.obj = o
  OBVIOUS
<1>3. /\ Len(vec) \in Nat /\ DOMAIN vec = 1 .. Len(vec)
      /\ DOMAIN long = 1 .. Len(vec) + 1
      /\ \A x \in 1 .. Len(vec) : long[x] = vec[x]
      /\ long[Len(vec) + 1] = e
      /\ long \in Seq([place : Nat, obj : Objects])
  BY <1>2
<1> HIDE DEF long, e
<1>4. DOMAIN long = DOMAIN vec \cup {Len(vec) + 1}
  BY <1>3
<1>5. {long[x].place : x \in DOMAIN long} = {vec[x].place : x \in DOMAIN vec} \cup {m}
  BY <1>2, <1>3, <1>4
<1>6. {j \in 1 .. m : Complete(s, items[j])} = {j \in 1 .. m - 1 : Complete(s, items[j])} \cup {m}
  BY <1>1
<1>7. {long[x].place : x \in DOMAIN long} = {j \in 1 .. m : Complete(s, items[j])}
  BY <1>5, <1>6 DEF VectorTo
<1>8. \A x \in DOMAIN long : IsObjectOf(long[x].obj, s, items[long[x].place])
  BY <1>2, <1>3, <1>4 DEF VectorTo
<1>9. ASSUME NEW x \in DOMAIN long, NEW y \in DOMAIN long, x < y
      PROVE  long[x].place < long[y].place
  <2>1. x \in DOMAIN vec /\ long[x] = vec[x]
    BY <1>3, <1>9
  <2>2. CASE y \in DOMAIN vec
    BY <1>3, <1>9, <2>1, <2>2 DEF VectorTo
  <2>3. CASE y = Len(vec) + 1
    <3>1. vec[x].place \in 1 .. m - 1
      BY <2>1 DEF VectorTo
    <3>2. QED
      BY <1>2, <1>3, <2>1, <2>3, <3>1
  <2>4. QED
    BY <1>4, <2>2, <2>3
<1>10. QED
  BY <1>3, <1>7, <1>8, <1>9 DEF VectorTo, long, e

LEMMA EndItemStep ==
  ASSUME Parsing, EndItem
  PROVE  Parsing'
<1>1. Place /\ InItem /\ KeptSoFar /\ SettingsSoFar
  BY DEF Parsing, EndItem
<1>2. /\ status = "parsing" /\ busy /\ i \notin DOMAIN Fields /\ Name # "config"
      /\ busy' = FALSE /\ config' = config
      /\ file' = file /\ section' = section /\ n' = n /\ i' = i
      /\ Name' = Name /\ Items' = Items
  BY DEF EndItem, Name, Items
<1>3. /\ section \in DOMAIN file /\ Name \in Vectors /\ section \in Nat
      /\ n \in DOMAIN Items /\ n \in Nat \ {0} /\ n <= Len(Items)
  BY <1>1, <1>2, SectionFacts DEF Place, Vectors, Items
<1>4. Place'
  BY <1>1, <1>2, <1>3 DEF Place
<1>5. \A k \in DOMAIN file : k # section => Ended(k)' = Ended(k)
  BY <1>2 DEF Ended
<1>6. Ended(section) = n - 1 /\ \A k \in DOMAIN file : k = section => Ended(k)' = n
  BY <1>2, <1>3 DEF Ended
<1>7. \A k \in DOMAIN file : k # section => file[k].name # Name
  BY <1>1, <1>3, SectionFacts DEF Name
<1>8. /\ IsKept <=> Complete(Name, Items[n])
      /\ IsObjectOf(WithDefaults, Name, Items[n])
      /\ WithDefaults \in Objects
  <2>1. WithDefaults \in [Slots(Name) -> Content] => WithDefaults \in Objects
    BY <1>3 DEF Objects, Vectors
  <2>2. QED
    BY <1>1, <1>2, <2>1, KeptIsComplete DEF Fields
<1>9. kept \in [Vectors -> Seq([place : Nat, obj : Objects])] /\ VectorTo(kept[Name], Name, Items, n - 1)
  BY <1>1, <1>3, <1>6 DEF KeptSoFar, Name, Items
<1>10. VectorTo(kept'[Name], Name, Items, n)
       /\ kept' \in [Vectors -> Seq([place : Nat, obj : Objects])]
       /\ \A s \in Vectors \ {Name} : kept'[s] = kept[s]
  <2>1. CASE IsKept
    <3>1. kept' = [kept EXCEPT ![Name] = Append(@, [place |-> n, obj |-> WithDefaults])]
      BY <2>1 DEF EndItem
    <3>2. kept[Name] \in Seq([place : Nat, obj : Objects])
      BY <1>3, <1>9
    <3>3. /\ VectorTo(Append(kept[Name], [place |-> n, obj |-> WithDefaults]), Name, Items, n)
          /\ Append(kept[Name], [place |-> n, obj |-> WithDefaults]) \in Seq([place : Nat, obj : Objects])
      BY <1>3, <1>8, <1>9, <2>1, <3>2, VectorAppend
    <3>4. QED
      BY <1>3, <1>9, <3>1, <3>3
  <2>2. CASE ~IsKept
    <3>1. kept' = kept
      BY <2>2 DEF EndItem
    <3>2. VectorTo(kept[Name], Name, Items, n)
      BY <1>3, <1>8, <1>9, <2>2, VectorDrop
    <3>3. QED
      BY <1>9, <3>1, <3>2
  <2>3. QED
    BY <2>1, <2>2
<1>11. ASSUME NEW k \in DOMAIN file, file[k].name \in Vectors
       PROVE  VectorTo(kept'[file[k].name], file[k].name, file[k].items, Ended(k)')
  <2>1. CASE k = section
    BY <1>6, <1>10, <2>1 DEF Name, Items
  <2>2. CASE k # section
    <3>1. VectorTo(kept[file[k].name], file[k].name, file[k].items, Ended(k))
      BY <1>1, <1>11 DEF KeptSoFar
    <3>2. kept'[file[k].name] = kept[file[k].name] /\ Ended(k)' = Ended(k)
      BY <1>5, <1>7, <1>10, <1>11, <2>2
    <3>3. QED
      BY <3>1, <3>2
  <2>3. QED
    BY <2>1, <2>2
<1>12. KeptSoFar'
  BY <1>2, <1>10, <1>11 DEF KeptSoFar
<1>13. SettingsSoFar'
  <2>1. flags' = flags \/ flags' = flags \cup {Name}
    BY DEF EndItem, Flagged
  <2>2. "config" \in flags' <=> "config" \in flags
    BY <1>2, <2>1
  <2>3. \A k \in DOMAIN file : file[k].name = "config" => k # section /\ Ended(k)' = Ended(k)
    BY <1>2, <1>5 DEF Name
  <2>4. QED
    BY <1>1, <1>2, <2>2, <2>3 DEF SettingsSoFar
<1>14. QED
  BY <1>2, <1>4, <1>12, <1>13 DEF Parsing, InItem

(* The end: every section is behind the parser. *)
LEMMA FinishStep ==
  ASSUME Parsing, Finish
  PROVE  Parsing' /\ SceneIsFile' /\ SettingsFromFile'
<1>1. Place /\ InItem /\ KeptSoFar /\ SettingsSoFar
  BY DEF Parsing, Finish
<1>2. /\ ~busy /\ section \notin DOMAIN file /\ status' \in {"failed", "aborted", "started"}
      /\ file' = file /\ section' = section /\ n' = n /\ i' = i /\ busy' = busy
      /\ kept' = kept /\ flags' = flags
      /\ config' = IF "config" \in flags THEN config ELSE WithoutConfig
  BY DEF Finish
<1>3. Parsing'
  BY <1>1, <1>2 DEF Parsing, Place, Name, Items, Fields
<1>4. ASSUME NEW k \in DOMAIN file
      PROVE  Ended(k) = Len(file[k].items)
  BY <1>1, <1>2, <1>4, SectionFacts DEF Ended, Place
<1>5. SceneIsFile'
  <2>1. ASSUME NEW k \in DOMAIN file, file[k].name \in Sections \ {"config"}
        PROVE  LET s == file[k].name  items == file[k].items  vec == kept[s] IN
      /\ {vec[m].place : m \in DOMAIN vec} = {j \in DOMAIN items : Complete(s, items[j])}
      /\ \A m \in DOMAIN vec : IsObjectOf(vec[m].obj, s, items[vec[m].place])
      /\ \A l, m \in DOMAIN vec : l < m => vec[l].place < vec[m].place
    <3>1. VectorTo(kept[file[k].name], file[k].name, file[k].items, Len(file[k].items))
      BY <1>1, <1>4, <2>1 DEF KeptSoFar, Vectors
    <3>2. DOMAIN file[k].items = 1 .. Len(file[k].items)
      BY <1>1, SectionFacts
    <3>3. QED
      BY <3>1, <3>2 DEF VectorTo
  <2>2. QED
    BY <1>2, <2>1 DEF SceneIsFile
<1>6. SettingsFromFile'
  <2>1. {"forward_move_step", "side_move_speed", "vertical_move_speed"} \subseteq Settings
    BY DEF Settings, Slots, Slot, Known, Flag, Figures
  <2>2. CASE "config" \in flags
    <3>1. PICK k \in DOMAIN file : file[k].name = "config" /\ Ended(k) = 1
      BY <1>1, <2>2 DEF SettingsSoFar
    <3>2. SettingsOf(config, file[k].items[1])
      BY <1>1, <3>1 DEF SettingsSoFar
    <3>3. \A l \in DOMAIN file : file[l].name = "config" => l = k
      BY <1>1, <3>1, SectionFacts
    <3>4. QED
      BY <1>2, <2>2, <3>2, <3>3 DEF SettingsFromFile, SettingsOf
  <2>3. CASE "config" \notin flags
    <3>1. \A k \in DOMAIN file : file[k].name # "config"
      BY <1>1, <1>4, <2>3, SectionFacts DEF SettingsSoFar
    <3>2. /\ config'["side_move_speed"] = Half(config'["forward_move_step"])
          /\ config'["vertical_move_speed"] = config'["forward_move_step"]
      BY <1>2, <2>1, <2>3 DEF WithoutConfig
    <3>3. QED
      BY <1>2, <3>1, <3>2 DEF SettingsFromFile
  <2>4. QED
    BY <2>2, <2>3
<1>7. QED
  BY <1>3, <1>5, <1>6

LEMMA ParsingStep ==
  ASSUME Parsing /\ SceneIsFile /\ SettingsFromFile, [Next]_vars
  PROVE  Parsing' /\ SceneIsFile' /\ SettingsFromFile'
<1>1. CASE BeginItem
  BY <1>1, BeginItemStep DEF BeginItem, SceneIsFile, SettingsFromFile
<1>2. CASE ParseField
  <2>1. status' \in {"parsing", "failed"}
    BY <1>2 DEF ParseField, Skip, Throw, Unknown, Store
  <2>2. QED
    BY <1>2, <2>1, ParseFieldStep DEF SceneIsFile, SettingsFromFile
<1>3. CASE EndConfig
  BY <1>3, EndConfigStep DEF EndConfig, SceneIsFile, SettingsFromFile
<1>4. CASE EndItem
  BY <1>4, EndItemStep DEF EndItem, SceneIsFile, SettingsFromFile
<1>5. CASE EndSection
  BY <1>5, EndSectionStep DEF EndSection, SceneIsFile, SettingsFromFile
<1>6. CASE Finish
  BY <1>6, FinishStep
<1>7. CASE UNCHANGED vars
  <2>1. Parsing'
    BY <1>7 DEF vars, Parsing, Place, InItem, KeptSoFar, SettingsSoFar, Ended, Name, Items, Fields
  <2>2. file' = file /\ kept' = kept /\ config' = config /\ status' = status
    BY <1>7 DEF vars
  <2>3. SceneIsFile'
    BY <2>2 DEF SceneIsFile
  <2>4. SettingsFromFile'
    BY <2>2 DEF SettingsFromFile
  <2>5. QED
    BY <2>1, <2>3, <2>4
<1>8. QED
  BY <1>1, <1>2, <1>3, <1>4, <1>5, <1>6, <1>7 DEF Next

LEMMA AlwaysParsing == Spec => [](Parsing /\ SceneIsFile /\ SettingsFromFile)
<1>1. Init => Parsing /\ SceneIsFile /\ SettingsFromFile
  BY InitParsing DEF Init, SceneIsFile, SettingsFromFile
<1>2. Parsing /\ SceneIsFile /\ SettingsFromFile /\ [Next]_vars
        => (Parsing /\ SceneIsFile /\ SettingsFromFile)'
  BY ParsingStep
<1>3. QED
  BY <1>1, <1>2, PTL DEF Spec

(* When the program starts, its scene is the file: each vector has the      *)
(* complete items of its section, in order, with what their fields say.     *)
THEOREM SceneAlwaysIsFile == Spec => []SceneIsFile
BY AlwaysParsing, PTL

(* The settings, but for the look speed, are those of the file or defaults. *)
THEOREM SettingsAlwaysFromFile == Spec => []SettingsFromFile
BY AlwaysParsing, PTL

-----------------------------------------------------------------------------
(* The flags and the numbers of the unions, item by item. *)
LEMMA KeptStep ==
  ASSUME Parsing, EndItem
  PROVE  /\ Name \in Vectors /\ UNCHANGED <<obj, unions, status>>
         /\ \/ UNCHANGED <<kept, flags>>
            \/ /\ flags' = flags \cup {Name}
               /\ kept' = [kept EXCEPT ![Name] =
                             Append(@, [place |-> n, obj |-> WithDefaults])]
         /\ kept \in [Vectors -> Seq([place : Nat, obj : Objects])]
         /\ WithDefaults \in Objects /\ n \in Nat
<1>1. Place /\ InItem /\ KeptSoFar /\ busy /\ status = "parsing" /\ i \notin DOMAIN Fields
      /\ Name # "config"
  BY DEF Parsing, EndItem
<1>2. Name \in Vectors /\ n \in Nat
  BY <1>1 DEF Place, Vectors
<1>3. WithDefaults \in [Slots(Name) -> Content]
  BY <1>1, <1>2, KeptIsComplete
<1>4. WithDefaults \in Objects
  BY <1>2, <1>3 DEF Objects, Vectors
<1>5. QED
  BY <1>1, <1>2, <1>4 DEF EndItem, KeptSoFar, Flagged

LEMMA FlagsStep ==
  ASSUME FlagsTell, Parsing, [Next]_vars
  PROVE  FlagsTell'
<1>1. CASE BeginItem \/ ParseField \/ EndSection \/ UNCHANGED vars
  <2>1. flags' = flags /\ kept' = kept /\ (status' = "started" => status = "started")
    BY <1>1 DEF BeginItem, ParseField, EndSection, Skip, Throw, Unknown, Store, vars
  <2>2. QED
    BY <2>1 DEF FlagsTell
<1>2. CASE EndConfig
  BY <1>2 DEF EndConfig, FlagsTell
<1>3. CASE EndItem
  <2>1. CASE UNCHANGED <<kept, flags>>
    BY <1>3, <2>1, KeptStep DEF FlagsTell
  <2>2. CASE /\ flags' = flags \cup {Name}
             /\ kept' = [kept EXCEPT ![Name] = Append(@, [place |-> n, obj |-> WithDefaults])]
    <3>1. kept'[Name] # <<>> /\ \A s \in Vectors : s # Name => kept'[s] = kept[s]
      <4>1. kept[Name] \in Seq([place : Nat, obj : Objects])
            /\ [place |-> n, obj |-> WithDefaults] \in [place : Nat, obj : Objects]
        BY <1>3, KeptStep
      <4>2. Append(kept[Name], [place |-> n, obj |-> WithDefaults]) # <<>>
        <5> DEFINE w == Append(kept[Name], [place |-> n, obj |-> WithDefaults])
        <5>1. Len(w) = Len(kept[Name]) + 1 /\ Len(kept[Name]) \in Nat
          BY <4>1
        <5>2. Len(w) # 0
          BY <5>1
        <5>3. Len(<<>>) = 0
          OBVIOUS
        <5> HIDE DEF w
        <5>4. w # <<>>
          BY <5>2, <5>3, Zenon
        <5>5. QED
          BY <5>4 DEF w
      <4>3. QED
        BY <1>3, <2>2, <4>2, KeptStep
    <3>2. status' = "parsing"
      BY <1>3 DEF EndItem
    <3>3. QED
      BY <1>3, <2>2, <3>1, <3>2, KeptStep DEF FlagsTell, Vectors
  <2>3. QED
    BY <1>3, <2>1, <2>2, KeptStep
<1>4. CASE Finish
  BY <1>4 DEF Finish, FlagsTell, Sections
<1>5. QED
  BY <1>1, <1>2, <1>3, <1>4 DEF Next

(* The flags tell which vectors have an object, whatever the file.          *)
THEOREM FlagsAlwaysTell == Spec => []FlagsTell
<1>1. Init => FlagsTell
  BY DEF Init, FlagsTell
<1>2. FlagsTell /\ Parsing /\ [Next]_vars => FlagsTell'
  BY FlagsStep
<1>3. QED
  BY <1>1, <1>2, AlwaysParsing, PTL DEF Spec

Counting ==
  /\ UnionsCounted
  /\ busy /\ status = "parsing" /\ Name \in Figures =>
       obj["union"] = Unset \/ obj["union"].id \in unions

LEMMA CountingStep ==
  ASSUME Counting, Parsing, [Next]_vars
  PROVE  Counting'
<1>1. CASE BeginItem
  <2>1. /\ kept' = kept /\ unions' = unions /\ Name' = Name
        /\ obj' = [t \in Slots(Name) |-> Unset]
    BY <1>1 DEF BeginItem, Name
  <2>2. Name \in Figures => obj'["union"] = Unset
    BY <2>1, Tables DEF Slots
  <2>3. QED
    BY <2>1, <2>2 DEF Counting, UnionsCounted
<1>2. CASE ParseField
  <2>1. kept' = kept /\ Name' = Name /\ busy' = busy
    BY <1>2 DEF ParseField, Name
  <2>2. CASE UNCHANGED <<obj, unions>> /\ busy /\ status = "parsing"
    BY <2>1, <2>2 DEF Counting, UnionsCounted
  <2>3. CASE Store(Fields[i]) /\ Fields[i].key \in Known(Name) /\ busy /\ status = "parsing"
    <3> DEFINE field == Fields[i]
    <3>1. unions \subseteq unions'
      BY <2>3 DEF Store, Numbers
    <3>2. ASSUME Name \in Figures
          PROVE  obj'["union"] = Unset \/ obj'["union"].id \in unions'
      <4>1. /\ Name # "config" /\ obj \in [Slots(Name) -> Content]
        BY <2>3, <3>2 DEF Parsing, InItem, Figures
      <4>2. obj' = [obj EXCEPT ![Slot(Name, field.key)] = Given(field)]
        BY <2>3, <4>1 DEF Store
      <4>3. CASE field.key = "union"
        <5>1. obj'["union"] = Given(field)
          BY <3>2, <4>1, <4>2, <4>3, Tables DEF Slots
        <5>2. field.id \in unions'
          BY <2>3, <4>3 DEF Store, Numbers
        <5>3. QED
          BY <5>1, <5>2 DEF Given
      <4>4. CASE field.key # "union"
        <5>1. obj'["union"] = obj["union"]
          BY <2>3, <3>2, <4>1, <4>2, <4>4, Tables
        <5>2. QED
          BY <2>3, <3>1, <3>2, <5>1 DEF Counting
      <4>5. QED
        BY <4>3, <4>4
    <3>3. UnionsCounted'
      BY <2>1, <3>1 DEF Counting, UnionsCounted
    <3>4. QED
      BY <2>1, <3>2, <3>3 DEF Counting
  <2>4. QED
    BY <1>2, <2>2, <2>3 DEF ParseField, Skip, Throw, Unknown
<1>3. CASE EndItem
  <2>1. CASE UNCHANGED <<kept, flags>>
    BY <1>3, <2>1, KeptStep DEF Counting, UnionsCounted, EndItem
  <2>2. CASE /\ flags' = flags \cup {Name}
             /\ kept' = [kept EXCEPT ![Name] = Append(@, [place |-> n, obj |-> WithDefaults])]
    <3>1. \A s \in Vectors : s # Name => kept'[s] = kept[s]
      BY <1>3, <2>2, KeptStep
    <3>2. ASSUME NEW m \in DOMAIN kept'[Name], Name \in Figures
          PROVE  LET u == kept'[Name][m].obj["union"] IN
                 u \notin {Default, Unset} => u.id \in unions
      <4>1. kept[Name] \in Seq([place : Nat, obj : Objects])
            /\ [place |-> n, obj |-> WithDefaults] \in [place : Nat, obj : Objects]
            /\ kept'[Name] = Append(kept[Name], [place |-> n, obj |-> WithDefaults])
        BY <1>3, <2>2, KeptStep
      <4>2. CASE m \in DOMAIN kept[Name]
        <5>1. kept'[Name][m] = kept[Name][m]
          BY <4>1, <4>2
        <5>2. QED
          BY <3>2, <4>2, <5>1 DEF Counting, UnionsCounted
      <4>3. CASE m \notin DOMAIN kept[Name]
        <5>1. kept'[Name][m] = [place |-> n, obj |-> WithDefaults]
          BY <3>2, <4>1, <4>3
        <5>2. "union" \in DOMAIN obj
          <6>1. obj \in [Slots(Name) -> Content]
            BY <1>3, <3>2 DEF Parsing, InItem, EndItem
          <6>2. QED
            BY <3>2, <6>1, Tables DEF Slots
        <5>3. WithDefaults["union"] \in {Default, obj["union"]}
          BY <5>2 DEF WithDefaults
        <5>4. obj["union"] = Unset \/ obj["union"].id \in unions
          BY <1>3, <3>2 DEF Counting, EndItem
        <5>5. QED
          BY <5>1, <5>3, <5>4
      <4>4. QED
        BY <4>2, <4>3
    <3>3. Figures \subseteq Vectors
      BY DEF Figures, Vectors, Sections
    <3>4. UnionsCounted'
      BY <1>3, <3>1, <3>2, <3>3, KeptStep DEF Counting, UnionsCounted
    <3>5. QED
      BY <1>3, <3>4 DEF Counting, EndItem
  <2>3. QED
    BY <1>3, <2>1, <2>2, KeptStep
<1>4. CASE EndConfig \/ EndSection \/ Finish
  <2>1. kept' = kept /\ unions' = unions /\ ~busy'
    BY <1>4 DEF EndConfig, EndSection, Finish
  <2>2. QED
    BY <2>1 DEF Counting, UnionsCounted
<1>5. CASE UNCHANGED vars
  BY <1>5 DEF vars, Counting, UnionsCounted, Name
<1>6. QED
  BY <1>1, <1>2, <1>3, <1>4, <1>5 DEF Next

(* No kept figure has a union that is not counted, whatever the file.       *)
THEOREM UnionsAlwaysCounted == Spec => []UnionsCounted
<1>1. Init => Counting
  <2>1. Figures \subseteq Sections \ {"config"}
    BY DEF Figures, Sections
  <2>2. QED
    BY <2>1 DEF Init, Counting, UnionsCounted
<1>2. Counting /\ Parsing /\ [Next]_vars => Counting'
  BY CountingStep
<1>3. Counting => UnionsCounted
  BY DEF Counting
<1>4. QED
  BY <1>1, <1>2, <1>3, AlwaysParsing, PTL DEF Spec

=============================================================================
