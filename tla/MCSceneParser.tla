--------------------------- MODULE MCSceneParser ---------------------------
(***************************************************************************)
(* Scene files whose sections are varied one against the others.  Sections *)
(* and fields stand in the order of their names, as the JSON library has   *)
(* them; the value of a field is its number, to tell one from another.     *)
(***************************************************************************)
EXTENDS SceneParser

Fit(key, id) == [key |-> key, value |-> "fit", id |-> id]
Is(key, value) == [key |-> key, value |-> value, id |-> 9]
Section(name, items) == <<[name |-> name, items |-> items]>>

Configs == {<<>>} \cup {Section("config", <<item>>) : item \in {
  <<>>,
  <<Fit("height", 1), Fit("screen_height", 2), Fit("screen_width", 3), Fit("width", 4)>>,
  <<Fit("fovx", 1), Fit("look_speed", 2), Fit("move_speed", 3)>>,
  <<Fit("emission", 1), Is("fovx", "unfit")>>}}

Camera == <<Fit("direction", 1), Fit("position", 2)>>
Cameras == {<<>>} \cup {Section("cameras", items) : items \in {
  <<Camera>>, <<<<Fit("direction", 3)>>, Camera>>, <<<<Fit("position", 3)>>>>}}

Light(type, rest) == <<Fit("color", 1)>> \o rest \o <<Is("type", type)>>
Lights == {<<>>} \cup {Section("lights", items) : items \in {
  <<Light("ambient", <<Fit("intensity", 2)>>), Light("unknown", <<Fit("intensity", 2)>>)>>,
  <<Light("point", <<Fit("intensity", 2), Fit("position", 3)>>),
    Light("point", <<Fit("intensity", 4)>>)>>,
  <<Light("direct", <<Fit("direction", 2), Fit("intensity", 3)>>),
    Light("point", <<Fit("direction", 2), Fit("intensity", 3), Fit("position", 4)>>),
    Light("direct", <<Fit("intensity", 3), Fit("position", 4)>>)>>,
  <<<<Is("color", "unknown"), Fit("intensity", 2), Is("type", "ambient")>>>>}}

Box == <<Fit("center", 1), Fit("color", 2), Fit("sides", 3), Fit("union", 1)>>
Cone == <<Fit("color", 1), Fit("direction", 2), Fit("position", 3), Fit("width", 4)>>
Cylinder == <<Fit("color", 1), Fit("direction", 2), Fit("position", 3), Fit("radius", 4)>>
Plane == <<Fit("color", 1), Fit("normal", 2), Fit("position", 3)>>
Sphere == <<Is("color", "unknown"), Fit("position", 2), Fit("radius", 3)>>
Torus == <<Fit("color", 1), Fit("inner_radius", 2), Fit("normal", 3),
           Fit("outer_radius", 4), Fit("position", 5)>>
Triangle == <<Fit("a", 1), Fit("b", 2), Fit("c", 3), Fit("center", 4), Fit("color", 5)>>

SomeFigures == {<<>>} \cup {Section("spheres", items) : items \in {
    <<Sphere, <<Fit("radius", 5), Fit("union", 3)>>, Sphere \o <<Fit("union", 2)>>>>,
    <<<<Fit("center", 1), Fit("color", 2), Fit("position", 3)>>,
      <<Fit("center", 4), Fit("color", 5), Fit("position", 6), Fit("radius", 7)>>>>}}
  \cup {Section("planes", <<Plane>>) \o Section("torus", <<Torus, Plane>>)
           \o Section("triangles", <<Triangle, Tail(Triangle)>>)}

Early == {<<>>, Section("boxes", <<Box, Cone>>), Section("camearas", <<Camera>>)}
Cones == {<<>>, Section("cones", <<Cone, Plane \o <<Is("width", "unfit")>>>>)}

AllFiles ==
  {b \o c \o cn \o co \o cy \o l \o f :
     b \in Early, c \in Cameras, cn \in Cones, co \in Configs,
     cy \in {<<>>, Section("cylinders", <<Cylinder>>)}, l \in Lights, f \in SomeFigures}

=============================================================================
