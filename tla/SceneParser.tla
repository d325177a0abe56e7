---------------------------- MODULE SceneParser ----------------------------
(***************************************************************************)
(* parse_scene: the sections of the file, their items, and the fields of   *)
(* each item, one by one, with the flags that decide what is kept.  A check *)
(* that fails is logged and parsing goes on, so that a value of the file   *)
(* is only told apart by what happens to it:                               *)
(*   "fit"       passes its checks, or fails one and is converted after it *)
(*   "unknown"   a colour that is none, a light type without that name     *)
(*   "unfit"     the JSON library cannot convert it, and throws            *)
(* and, for a light's type, the three names.  A vector that is too short   *)
(* is read past its end: "fit" or "unfit", whatever is found there.  An    *)
(* item that is no object has no known field; a section that is an object  *)
(* has its values as items, one that is neither has itself.                *)
(***************************************************************************)
EXTENDS Naturals, Sequences, FiniteSets

CONSTANT Files   \* the files that can be given to --scene

Figures == {"spheres", "planes", "triangles", "cones", "cylinders", "torus", "boxes"}
Sections == Figures \cup {"config", "cameras", "lights"}

LightTypes == {"ambient", "point", "direct"}
Values == {"fit", "unknown", "unfit"} \cup LightTypes

(* A file as the library delivers it: its sections in some order, none of   *)
(* them twice, of items, of fields.                                         *)
Field == [key : STRING, value : Values, id : Nat]
File == Seq([name : STRING, items : Seq(Seq(Field))])

ASSUME FilesAssumption ==
  /\ Files \subseteq File
  /\ \A f \in Files : \A k \in DOMAIN f :
       /\ \A l \in DOMAIN f : f[k].name = f[l].name => k = l
       /\ f[k].name = "config" => Len(f[k].items) = 1
       /\ \A m \in DOMAIN f[k].items : \A j \in DOMAIN f[k].items[m] :
            LET field == f[k].items[m][j] IN
            /\ field.value = "unknown" => field.key \in {"color", "type"}
            /\ field.key = "type" => field.value # "fit"

-----------------------------------------------------------------------------
(* The fields each parser knows, and the member each is stored in.          *)
Common == {"color", "specular", "reflective", "refractive", "transparency",
           "center", "position", "negative", "union", "emission"}

Own == [spheres   |-> {"radius"},
        planes    |-> {"normal"},
        triangles |-> {"a", "b", "c"},
        cones     |-> {"direction", "width", "gamma"},
        cylinders |-> {"direction", "radius", "height"},
        torus     |-> {"normal", "inner_radius", "outer_radius"},
        boxes     |-> {"sides"}]

(* parse_common shifts the label "position" by one for triangles.           *)
Known(s) ==
  CASE s = "triangles" -> (Common \ {"position"}) \cup Own[s]
    [] s \in Figures \ {"triangles"} -> Common \cup Own[s]
    [] s = "cameras" -> {"position", "direction"}
    [] s = "lights" -> {"type", "intensity", "color", "position", "direction"}
    [] s = "config" -> {"width", "screen_width", "height", "screen_height", "fovx",
                        "fovy", "move_speed", "look_speed", "emission", "blinding",
                        "transparency", "refractive"}

Flag(key) ==
  CASE key = "center" -> "position"
    [] key = "screen_width" -> "width"
    [] key = "screen_height" -> "height"
    [] OTHER -> key

Slot(s, key) ==
  CASE s = "triangles" /\ key = "center" -> "a"
    [] s = "lights" /\ key \in {"position", "direction"} -> "vec"
    [] s = "config" /\ key = "move_speed" -> "forward_move_step"
    [] s = "config" /\ key = "look_speed" -> "horizontal_look_speed"
    [] OTHER -> Flag(key)

Slots(s) == {Slot(s, key) : key \in Known(s)}

(* What a figure, a camera and a light cannot do without. *)
Required(s) ==
  CASE s = "spheres" -> {"color", "position", "radius"}
    [] s = "planes" -> {"color", "position", "normal"}
    [] s = "triangles" -> {"color", "a", "b", "c"}
    [] s = "cones" -> {"color", "position", "direction", "width"}
    [] s = "cylinders" -> {"color", "position", "direction", "radius"}
    [] s = "torus" -> {"color", "position", "normal", "inner_radius", "outer_radius"}
    [] s = "boxes" -> {"color", "position", "sides"}
    [] s = "cameras" -> {"position", "direction"}
    [] s = "lights" -> {"type", "intensity"}

Optional(s) ==
  CASE s = "cones" -> {"gamma"}
    [] s = "cylinders" -> {"height"}
    [] s = "lights" -> {"color"}
    [] OTHER -> {}

Defaulted(s) ==
  Optional(s) \cup
  (IF s \in Figures THEN {"specular", "reflective", "refractive", "transparency",
                          "negative", "union", "emission"}
   ELSE {})

(* A member holds what a field gave it, or one of these.                    *)
Given(field) == [value |-> field.value, id |-> field.id]
Unset == [value |-> "unset", id |-> 0]
Default == [value |-> "default", id |-> 0]

Settings ==
  Slots("config") \cup {"side_move_speed", "vertical_move_speed", "vertical_look_speed"}

VARIABLES
  file,     \* the scene file
  section, n, i,   \* section, item in it, next field of the item; n counts items begun
  busy,     \* an item is being parsed
  obj, got, \* its members so far, and the flags of bitmap_t
  kept,     \* the vectors of rtx::objects, each object with where it stood
  flags, unions,
  config,   \* rtx::config
  status    \* "parsing", "started", "failed" (an exception), "aborted" (an assert)

vars == <<file, section, n, i, busy, obj, got, kept, flags, unions, config, status>>

Name == file[section].name
Items == file[section].items
Fields == Items[n]

Init ==
  /\ file \in Files
  /\ section = 1 /\ n = 0 /\ i = 1 /\ busy = FALSE
  /\ obj = [t \in {} |-> Unset] /\ got = {}
  /\ kept = [s \in Sections \ {"config"} |-> <<>>]
  /\ flags = {} /\ unions = {}
  /\ config = [t \in Settings |-> Unset]
  /\ status = "parsing"

-----------------------------------------------------------------------------
(* A parser begins an item; its bitmap is its own.                          *)
(* Mutant: the bitmap is static.                                            *)
Bitmap_Kept == got
Bitmap == {}

BeginItem ==
  /\ status = "parsing" /\ ~busy /\ section \in DOMAIN file
  /\ Name \in Sections /\ n < Len(Items)
  /\ busy' = TRUE /\ n' = n + 1 /\ i' = 1
  /\ obj' = [t \in Slots(Name) |-> Unset] /\ got' = Bitmap
  /\ UNCHANGED <<file, section, kept, flags, unions, config, status>>

(* A section without more items, or of a name parse_scene does not know.    *)
EndSection ==
  /\ status = "parsing" /\ ~busy /\ section \in DOMAIN file
  /\ Name \in Sections => n = Len(Items)
  /\ section' = section + 1 /\ n' = 0
  /\ UNCHANGED <<file, i, busy, obj, got, kept, flags, unions, config, status>>

(* One field, by the parser of its kind.                                    *)
Skip ==
  /\ i' = i + 1
  /\ UNCHANGED <<obj, got, unions, config, status>>

(* A light type without that name returns before its flag is set, a colour  *)
(* does not.                                                                *)
Unknown(field) ==
  /\ i' = i + 1
  /\ got' = IF field.key = "type" THEN got ELSE got \cup {Flag(field.key)}
  /\ UNCHANGED <<obj, unions, config, status>>

(* Mutant: the last number replaces the others. *)
Numbers_Last(field) == {field.id}
Numbers(field) == unions \cup {field.id}

Store(field) ==
  /\ i' = i + 1
  /\ got' = got \cup {Flag(field.key)}
  /\ IF Name = "config"
     THEN config' = [config EXCEPT ![Slot(Name, field.key)] = Given(field)] /\ UNCHANGED obj
     ELSE obj' = [obj EXCEPT ![Slot(Name, field.key)] = Given(field)] /\ UNCHANGED config
  /\ unions' = IF field.key = "union" THEN Numbers(field) ELSE unions
  /\ UNCHANGED status

Throw ==
  /\ status' = "failed"
  /\ UNCHANGED <<i, obj, got, unions, config>>

ParseField ==
  /\ status = "parsing" /\ busy /\ i \in DOMAIN Fields
  /\ LET field == Fields[i] IN
     IF field.key \notin Known(Name) THEN Skip
     ELSE IF field.value = "unfit" THEN Throw
     ELSE IF field.value = "unknown" THEN Unknown(field)
     ELSE Store(field)
  /\ UNCHANGED <<file, section, n, busy, kept, flags>>

-----------------------------------------------------------------------------
(* The end of parse_config: what has not been set gets its default.         *)
(* Mutant: the condition of parse_undefined_warn_set is the wrong way round. *)
Setting_Reversed(t) == IF t \in got THEN Default ELSE config[t]
Setting(t) == IF t \in got THEN config[t] ELSE Default

Half(v) == [half |-> v]

ConfigSet ==
  LET forward == IF "move_speed" \in got THEN config["forward_move_step"] ELSE Default
      look == IF "look_speed" \in got THEN config["vertical_look_speed"] ELSE Default
  IN [t \in Settings |->
        CASE t \in {"forward_move_step", "vertical_move_speed"} -> forward
          [] t = "side_move_speed" -> Half(forward)
          [] t \in {"horizontal_look_speed", "vertical_look_speed"} -> look
          [] OTHER -> Setting(t)]

EndConfig ==
  /\ status = "parsing" /\ busy /\ i \notin DOMAIN Fields
  /\ Name = "config"
  /\ config' = ConfigSet
  /\ flags' = flags \cup {"config"}
  /\ busy' = FALSE
  /\ UNCHANGED <<file, section, n, i, obj, got, kept, unions, status>>

(* The conditions under which each parser keeps what it has parsed.         *)
LightKept ==
  CASE obj.type.value = "ambient" -> TRUE
    [] obj.type.value = "point" -> "position" \in got /\ "direction" \notin got
    [] OTHER -> "direction" \in got /\ "position" \notin got

IsKept ==
  /\ Required(Name) \subseteq got
  /\ Name = "lights" => LightKept

(* The default of each member that has one and was not given.  The vec of   *)
(* an ambient light, kept here, is of no use to it.                         *)
WithDefaults ==
  [t \in DOMAIN obj |-> IF t \in Defaulted(Name) \ got THEN Default ELSE obj[t]]

(* Mutant: the flag of the section is not set.                              *)
Flagged_Figures == IF Name \in Figures THEN flags \cup {Name} ELSE flags
Flagged == flags \cup {Name}

EndItem ==
  /\ status = "parsing" /\ busy /\ i \notin DOMAIN Fields
  /\ Name # "config"
  /\ IF IsKept
     THEN /\ kept' = [kept EXCEPT ![Name] = Append(@, [place |-> n, obj |-> WithDefaults])]
          /\ flags' = Flagged
     ELSE UNCHANGED <<kept, flags>>
  /\ busy' = FALSE
  /\ UNCHANGED <<file, section, n, i, obj, got, unions, config, status>>

(* The end of parse_scene: without a configuration its settings, but for    *)
(* the fields of view, get their defaults; no camera is an exception, no    *)
(* light an assertion that fails.                                           *)
WithoutConfig ==
  [t \in Settings |->
    CASE t \in {"width", "height", "forward_move_step", "vertical_move_speed",
                "vertical_look_speed", "horizontal_look_speed"} -> Default
      [] t = "side_move_speed" -> Half(Default)
      [] OTHER -> config[t]]

Finish ==
  /\ status = "parsing" /\ ~busy /\ section \notin DOMAIN file
  /\ config' = IF "config" \in flags THEN config ELSE WithoutConfig
  /\ status' = IF "cameras" \notin flags THEN "failed"
               ELSE IF kept["lights"] = <<>> THEN "aborted" ELSE "started"
  /\ UNCHANGED <<file, section, n, i, busy, obj, got, kept, flags, unions>>

Next ==
  \/ BeginItem \/ ParseField \/ EndConfig \/ EndItem \/ EndSection \/ Finish

Spec == Init /\ [][Next]_vars

-----------------------------------------------------------------------------
(* What a file says, without the order and the flags of the parser.         *)
Said(s, item) ==
  {Flag(item[j].key) : j \in {j \in DOMAIN item :
     item[j].key \in Known(s) /\ <<item[j].key, item[j].value>> # <<"type", "unknown">>}}

Stores(s, field, t) ==
  field.key \in Known(s) /\ Slot(s, field.key) = t /\ field.value # "unknown"

(* The last of the fields that store into the member counts.                *)
LastSays(s, item, t, v) ==
  \E j \in DOMAIN item :
    /\ Stores(s, item[j], t) /\ v = Given(item[j])
    /\ \A l \in DOMAIN item : l > j => ~Stores(s, item[l], t)

Silent(s, item, t) == \A j \in DOMAIN item : ~Stores(s, item[j], t)

TypeIs(item, type) ==
  \E v \in {[value |-> type, id |-> x] : x \in {item[j].id : j \in DOMAIN item}} :
    LastSays("lights", item, "type", v)

Complete(s, item) ==
  LET said == Said(s, item) IN
  /\ Required(s) \subseteq said
  /\ s = "lights" =>
       \/ TypeIs(item, "ambient")
       \/ TypeIs(item, "point") /\ "position" \in said /\ "direction" \notin said
       \/ TypeIs(item, "direct") /\ "direction" \in said /\ "position" \notin said

IsObjectOf(o, s, item) ==
  /\ DOMAIN o = Slots(s)
  /\ \A t \in Slots(s) :
       IF Silent(s, item, t)
       THEN o[t] = IF t \in Defaulted(s) \ Said(s, item) THEN Default ELSE Unset
       ELSE LastSays(s, item, t, o[t])

(* When the program starts its scene is the file: each vector has, in their *)
(* order, the items that say what they need to, each with what its own      *)
(* fields say and the defaults for the rest.                                *)
SceneIsFile ==
  status = "started" =>
    \A k \in DOMAIN file : file[k].name \in Sections \ {"config"} =>
      LET s == file[k].name  items == file[k].items  vec == kept[s] IN
      /\ {vec[m].place : m \in DOMAIN vec} = {j \in DOMAIN items : Complete(s, items[j])}
      /\ \A m \in DOMAIN vec : IsObjectOf(vec[m].obj, s, items[vec[m].place])
      /\ \A l, m \in DOMAIN vec : l < m => vec[l].place < vec[m].place

(* The flags that decide whether the program starts, and what it warns of,  *)
(* tell which vectors have an object: no camera_t is missing at cam_vec.at. *)
FlagsTell ==
  /\ \A s \in Sections \ {"config"} : s \in flags <=> kept[s] # <<>>
  /\ status = "started" => kept["cameras"] # <<>> /\ kept["lights"] # <<>>

(* Each number of a union that a kept figure has is one of those counted,   *)
(* whichever parser met it: no scene with a union is left without a buffer. *)
UnionsCounted ==
  \A s \in Figures : \A m \in DOMAIN kept[s] :
    LET u == kept[s][m].obj["union"] IN u \notin {Default, Unset} => u.id \in unions

(* The settings are those of the file, in either spelling, and the defaults *)
(* for the rest; look_speed is left out, since its value is lost.           *)
SettingsFromFile ==
  status = "started" =>
    /\ \A k \in DOMAIN file : file[k].name = "config" =>
         \A t \in Slots("config") \ {"horizontal_look_speed"} :
           IF Silent("config", file[k].items[1], t) THEN config[t] = Default
           ELSE LastSays("config", file[k].items[1], t, config[t])
    /\ config["side_move_speed"] = Half(config["forward_move_step"])
    /\ config["vertical_move_speed"] = config["forward_move_step"]

(* "assert(not rtx::objects::li_vec.empty())", parse_scene.cpp:900.         *)
LightsExist == status # "aborted"

=============================================================================
