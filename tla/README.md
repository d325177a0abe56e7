# A verification project for RayTracer

RayTracer renders a scene read from a JSON file with OpenCL, by ray tracing or
by ray marching, and lets the user fly through it and drag its figures with the
mouse. This directory holds TLA+ modules translated from its source, the TLC
configurations that model-check them on small instances, and theorems about
them, checked by TLAPS, that hold for every value of the constants.

Line numbers refer to the files under `src/`; `PROJECT.json` maps every
definition to the lines it stands for.

## 1. The system

The program is one host thread and one GPU queue. `main` parses the arguments
and the scene, opens a window, compiles the kernel, copies the scene to the GPU,
renders once, and enters the event loop of the window library. From there on
only callbacks run: the loop delivers the pending X11 events one by one to the
hooks of `event_hooks.cpp`, and calls `framehook` when none is left. Hooks share
static variables, the host copies of the figures, and the GPU's copies.

| component | state it keeps | operations | talks to |
|---|---|---|---|
| event hooks (`src/src/event_hooks.cpp`) | `move_params`: counter of wanted updates, directions, selection, drag, handles; the camera | key, mouse and frame hooks | scene buffers, picking, queue, window |
| scene buffers (`src/src/init_scene.cpp`, `src/cl/tracing_base.cl`) | the byte array of all figures, offsets of each type, cameras, lights, canvas, union buffer | `init_scene`, `refill_*`, the kernel's walk | OpenCL wrapper |
| picking (`src/include/scene_helper.hpp`) | none | `object_at_pos` | runs the kernel's intersection code on the host |
| scene parser (`src/src/parse_scene.cpp`) | vectors of figures, lights, cameras; configuration; flags | `parse_scene` and a parser per kind of item | configuration, objects |
| ray tracer (`src/cl/tracer.cl`) | per work-item: queue of rays | `trace_ray_rtx`, `closest_intersection_rtx`, shadows, light | scene buffers |
| ray marcher (`src/cl/marcher.cl`) | shared by all work-items: `dsf_buffer` | `scene_dsf`, `shadow_dsf`, `trace_ray_rmc` | scene buffers |
| geometry (`src/cl/algo.h`, `src/src/linalg.cpp`) | none | roots, rotations | - |
| start-up, shutdown (`src/src/main.cpp`, `init_gpu.cpp`, `init_mlx.cpp`, `global.cpp`) | the globals of `rtx::data` | `argparse`, `init_*`, `collapse` | everything |
| OpenCL wrapper (`src/cllib/include`) | handles, argument list of a kernel, build options | `CLarray::fill/dump/memset`, `CLkernel::run`, `CLqueue::finish`, moves | OpenCL |
| window library (`src/mlxlib`) | window, image, hooks | `add_hook`, `event_loop`, `put_image` | X11 |

What is hard about it:

* **Order of events.** Every hook runs to completion, but presses, releases,
  motions and frames come in any order, and the hooks communicate through
  counters and flags: a counter of held keys that a selection overwrites, a drag
  that two buttons can start and end, handles drawn in one frame and tested after
  the next edit.
* **Two copies of the scene.** The host picks and drags in `sp_vec ... box_vec`,
  the GPU renders from a byte array. Three files agree on its layout without a
  shared definition.
* **A device that runs by itself.** Kernels are started without waiting; the
  reads behind them in the in-order queue are what makes a frame complete.
* **Shared memory on the device.** The ray marcher's work-items share one
  buffer for unions, with no synchronisation.
* **Input that is only complained about.** The parser logs a failed check and
  goes on.

What makes each part correct:

* hooks: the camera moves exactly while keys are down; an object moves exactly
  while it is dragged; the picture is of the scene as it is and from where the
  camera is; every edit is eventually shown; the GPU idles when nothing happens;
* scene buffers: the kernel reads the host's figures, after any drag;
* picking: the figure under the pointer in the picture is the one selected;
* parser: a figure is in the scene only with all its fields, settings take the
  value the file gives;
* overlay: what is drawn for any selection stays in the image, joins its ends,
  and can be grabbed where it is drawn;
* ray tracer: rays that are processed were enqueued, and with their data; the
  search finds the nearest figure, a light is seen exactly if nothing is between;
* ray marcher: a union's distance is that of the point it is asked for;
* start-up: nothing is used before it exists or after it is gone.

## 2. The modules

### Viewer, EventHooks

`EventHooks` is the core: every hook `init_mlx` installs is one action of the
same name, because each runs to completion in the one host thread.

| variable | code |
|---|---|
| `do_update`, `mouse_press`, `move_direction`, `look_direction` | `move_params`; directions as signs |
| `selected_obj`, `selected_type`, `selected_move_dir` | `move_params` |
| `handles` | `sel_c`, `sel_ox`, `sel_oy`, `sel_oz`, as what they were computed from |
| `camera` | `cam_vec[current_camera]` |
| `host`, `dev` | the seven figure vectors; `rtx::scene::figures` |
| `shown` | the image in the window, as the pose, the device figures and the handles it was made from |
| `held`, `buttons`, `focused` | the user and the window system |
| `running` | false after `exit` or `collapse` |

| action | code |
|---|---|
| `keypress_hook`, `KeyEscape`, `keyrelease_hook` | the hooks of these names; escape calls `exit` |
| `KeyElsewhere`, `FocusChange` | external: strokes another window gets |
| `mousepress_hook`, `mouserelease_hook` (`LookEnds`, `SelectClick`, `DragEnds`) | the branches of the two hooks, with `object_at_pos` as `Pick` |
| `mouse_hook` | pointer motion: the view turns, `move_object` and `resize_object` edit the host figure, `refill_*` copies its type |
| `framehook` | the early return, the camera, the copy to the device, kernel, read back, handles, image |
| `collapse` | the close button |

Numbers are abstracted to what the properties tell apart. A position, a size
and a pose are members of small sets; which handle or figure is under the
pointer is a free choice; a resized triangle goes anywhere, since the code
shifts it by an uninitialised vector. A run of the kernel and the blocking read
behind it are one step inside `framehook`: nothing else runs on the host
meanwhile. Scenes for the ray marcher are without unions, because the host
dereferences a null union buffer when it picks in any other.

`Viewer` is the abstract specification: one camera, one scene, one picture.
`Edit` changes one object and leaves the picture, `Refresh` replaces the whole
picture by a rendering of the present scene from the present camera.
`ImplementsViewer` is the refinement, with `host` as the scene and the pose and
device figures of `shown` as the picture.

### Overlay, Projection, Session

Two modules without variables for what the hooks compute when handles are shown,
and `Session`, which composes them with `EventHooks`: where the handles are is a
free choice in the first, any place in `Overlay`, computed in `Projection`.

`Overlay` has the lines and squares `framehook` draws over the image and the
test of `mousepress_hook` for what is near a handle. The loops of
`_draw_line_low` and `_draw_line_high` are one recursive function, `Track`, over
`Round`, one pass of the loop.

`Projection` goes from a pixel to its ray (`vec3_from_pixpos`), from a direction
in a scene file to the camera's matrix (`camera_s`, `compute_angles`,
`compute_matrix`), to its inverse (`inv`), and from an object's direction back
to a pixel (`sel_c`, of `update_sel_obj_center` and `pixpos_from_vec3`); it also
has the row a click and a traced pixel belong to.
Numbers are fractions, and an angle is its sine and cosine, so that the products
written out by hand in `linalg.cpp` are compared exactly; the rounding of floats
is left out.

### FigureLayout

The byte array of figures, from the loop of `add_figures_next` in `init_scene`,
through the buffer and the refills after each drag, to the kernel's own walk.
One iteration of either loop is one step. `Count` and `ItemSize` are arbitrary.

### ComputeQueue

A frame and a drag call by call, on two processors. The host thread enqueues a
command with each call and waits where the call blocks; the GPU executes the
commands in order, a kernel one pixel per step, in any order of the pixels. The
image and the canvas start with whatever their memory holds.

| variable | code |
|---|---|
| `pc` | the call the host thread is in: first `run` and `dump` of `main`, a refill, and `fill`, `run`, `dump` of `framehook` |
| `queue`, `todo` | the commands in `rtx::data::queue`; the work-items the kernel has not run |
| `camera`, `figures` | the host vectors the commands point into |
| `dev`, `canvas`, `img`, `shown` | the device's copies, the canvas, the memory of the image, what `put_image` showed |

It refers to `Viewer` as `EventHooks` does: what is one step there is shown here
to be allowed to take many. The counters and flags of the hooks are left out; a
frame or a drag may begin whenever the event loop has control. A blocking call
returns when its command is complete, as the comments of `CLarray` say of `fill`
and `dump`.

### Marcher

Work-items that march along their rays, over one buffer of unions that they
share. Each access to the buffer is a step of its own: update_closest_t reads
`val`, writes it, writes `ptr`; update_shadow_t reads and writes `val`; the last
loop of scene_dsf reads `val`, then `ptr`. Everything a work-item does between
two accesses touches its own memory only.

| variable | code |
|---|---|
| `dist` | what the distance functions return, by figure and point |
| `buffer` | `dsf_buffer`, with the memory behind its end that an index can reach |
| `item` | per work-item, the local variables of `closest_intersection_rmc`, `scene_dsf` and `shadow_dsf`, and the result |
| `frames` | runs of the kernel; the buffer is kept from one to the next |

| action | code |
|---|---|
| `UpdateClosest`, `ReadUnion`, `StoreVal`, `StorePtr` | `update_closest_t`, for a free figure and for one in a union |
| `NextList`, `FoldUnion`, `FoldPtr` | the loops of `scene_dsf`, its last one over the buffer |
| `Hit`, `Miss`, `March` | the loop of `closest_intersection_rmc` |
| `Probe`, `UpdateShadow`, `StoreShadow`, `ShadowEnd` | `get_normal` and `shadow_dsf`, which write the buffer too |
| `NextFrame` | `framehook` runs the kernel again |

Distances are integers and a point a model value: where a ray is after a step is
a free choice. Entries behind the end of the buffer are cells with any first
content of their own, since the code writes and reads them. The scene does not
change: a drag would only replace `dist`. The lighting keeps no state.

### Intersections, RayTracer

`Intersections` has, for each type of figure, which root of its equation
`tracer.cl` and `algo.h` take: the ends of the lists of roots, `fmin` and `fmax`
with a NaN, the caps of a cylinder, the real ones among a torus's four roots. A
"line" is what the algebra before that yields for one ray and one figure; a
distance along the ray is an integer, since only the order counts.

`RayTracer` is one work-item from its primary ray to the colour of its pixel, in
both variants `trace_ray_rtx` is compiled to. Each figure tested by the search or
for a shadow is a step, along a line chosen then.

| variable | code |
|---|---|
| `build`, `behind` | the `-D` options; which array the compiler put behind `ray_enqueued` |
| `enqueued`, `pos`, `dir`, `prod`, `col` | the five arrays of `trace_ray_rtx`; without `RTX_TRANSPARENCY` its scalars |
| `current_ray` | the loop over the rays, or the bounces done |
| `search` | the locals of `closest_intersection_rtx`, with the normal stored for cones and tori |
| `shadow`, `lit` | the loops of `compute_lightning_rtx` and `shadow_intersection`; the lights not hidden |

| action | code |
|---|---|
| `NextRay`, `Sum` | the head of the loop over the rays, and what follows it |
| `TestFigure`, `Miss`, `Hit` | `closest_intersection_rtx` and the branch on its result, `compute_direct_lightning` included |
| `AmbientLight`, `SeekLight`, `TestShadow`, `NotHidden` | `compute_lightning_rtx` |
| `Shade`, `Bounce` | the rays that follow, with `refract_ray_slow`, in the two variants |

`ray_enqueued` has sixteen elements (`RECURSION_DEPTH`), but a ray from the
eighth on still sets the flags of its children, 16 to 31. The arrays lie on the
work-item's stack in an order C does not define, so `behind` is one of the other four, or `"dead"`
for memory nothing still reads: `Overwrite` says which elements of which array
such a flag destroys. The scalars of the loop (`current_ray`, `_color`, the
parameters) could be behind it, too, in a build that keeps them on the stack;
they are taken to be in registers, and nothing is claimed of other builds.

An element of `col` says what was added to it, not the colour: `share`, the weight
of the figures' colours; `glare`, how often each point light was added by
`compute_direct_lightning`, which the code does for every ray traced and without
its weight; and `white`, that the sum is infinite or not a number, which `fmin`
makes white. The glare is divided by the distance between light and ray, so it
whitens when the ray has no direction and when it is aimed at the light. That a
light is in `lit` says that no figure hides it: the code adds it only if it also
meets the surface from in front (`tracer.cl:463`), which is left out.

### SceneParser

The parser of a scene file, field by field. A file is what the JSON library
delivers: sections of items of fields. The log is left out, and with it the
checks that only log; a value is told apart by what happens to it: it is
converted (`"fit"`), it is a colour or a light type of no name (`"unknown"`), or
the conversion throws (`"unfit"`). Each field has a number, to tell its value
from every other.

| variable | code |
|---|---|
| `file`, `section`, `n`, `i`, `busy` | the JSON document; the loops of `parse_scene`, of `parse_spheres` and the like, and of `parse_sphere_single` and the like |
| `obj`, `got` | the local object of a parser and its `bitmap_t` (for configuration, cameras and lights the local `got_...` variables) |
| `kept` | the vectors of `rtx::objects`, each object with the place it had |
| `flags`, `unions`, `config` | the statics of these names, `rtx::config` |
| `status` | parsing; started, ended by an exception, or by the assertion at the end |

| action | code |
|---|---|
| `BeginItem`, `EndItem` | a parser of one item: its declarations; its defaults, its condition and `push_back` |
| `ParseField` (`Skip`, `Unknown`, `Store`, `Throw`) | one iteration of its loop, `parse_common` included |
| `EndConfig` | the end of `parse_config` |
| `EndSection`, `Finish` | the loop of `parse_scene` and what follows it |

What the properties compare the result with (`Said`, `LastSays`, `Complete`,
`IsObjectOf`) is stated of the file alone, without loops or flags.

### Startup

The life of the process: `main`, `argparse`, `parse_scene` from outside,
`init_mlx`, `init_gpu`, `init_scene`, `init_kernel`, the first picture, the event
loop from outside, and every way out. Each call to OpenCL or to the window library
can fail; a failure before `init_scene` is caught by `main` unless it is built
with `__DEBUG`, a later one ends the process at once.

| variable | code |
|---|---|
| `guarded`, `scene` | whether `main` has its try block; whether the scene has figures and unions |
| `pc`, `at` | the call, and the wrapper it is about |
| `got`, `tracer_type`, `kernel_file` | the options |
| `own` | the handle in each wrapper: the globals of `global.cpp`, `init_gpu`'s program, the temporary of a move |
| `refs` | references the program has, as `clRetain...` and `clRelease...` count them; `Live` adds what one object keeps of another |
| `built`, `grid`, `args` | what the program was compiled from, the kernel's work sizes and arguments |
| `win`, `img`, `hooks` | the window library |
| `used` | the OpenCL objects the last step named |

The actions are named for the calls. `Assign` and `DropTemp` are a move
assignment from a temporary and its destructor; `DestroyNext` is one destructor,
in the order `After` of `collapse`, of an exception leaving `init_gpu`, and of the
globals at exit. An option's word is told apart by what it is compared with; the
code compares hashes, of which equal ones are taken for equal words.

## 3. What TLC checks

| run | question | bounds |
|---|---|---|
| `keyboard` | do strokes in any order leave the camera where it should be, and the counter at zero? | nine keys: one alone on its axis, three on one axis, both look axes, an unbound one, escape; left button |
| `mouse` | do picture, handles, host and device agree through selections and drags, and is every edit shown? | a sphere and a triangle, two places, two view angles, two buttons |
| `session` | is a drag safe, and over when its button is, whatever else happens; do the lines and squares stay in the image, and the handles follow the view? | one figure, W and P, three buttons, focus changes, two sizes and positions; a window of 9 by 6 pixels, handles up to 2 outside it; 144 views and 49 directions of rational sines, with zero, right and straight angles; the 6 pixels with a rational line of sight |
| `figure_layout` | does the kernel read the host's figures? | seven types, two of them empty, one with two figures, sizes 1 to 3, two values per figure |
| `queue` | is a picture ever mixed from two frames, or a host vector changed under a pending command, and does every hook return? | two pixels, two figures with two values, two poses; any first contents of canvas and image |
| `march` | is scene_dsf the minimum, in spite of its early breaks, and is a ray's object real? | two spheres, a plane, no box; two points; distances that hit, equal the hit bound, equal the miss bound and miss; three iterations, two probes |
| `union_race` | can racing work-items leave a pointer of another union or none at all, or keep a ray from ending? | two work-items, two frames, a union of two figures of two types, two iterations |
| `scene` | is the scene the program starts with the file's, and are flags, unions and settings? | 4800 files: every kind of figure; per section, items that are complete, that lack a field, give one twice under two spellings, have an unknown name or contradict their type; a value in the configuration and one in a figure that throws |
| `scene_lights` | is there a light when `parse_scene` ends? | the same files |
| `union_stale` | does a union's distance follow the comment at `marcher.cl:54`? | one work-item, one frame; a union in range of the buffer |
| `rays` | does a pixel's every ray have its data, find the nearest figure, its normal and its lights, and what do the figures and the glare add to the pixel? | a glass ball, two cones, a cylinder, a torus; three crossings; a point and an ambient light; 6 rays in the queue, or 4 bounces; four sets of options |
| `startup` | is each handle released once, used only while it lives, and does the kernel get the arguments it is compiled for? | none: options come in any order and number, every call can fail |

Two runs find a violation. `scene_lights`: `parse_scene` asserts at line 900
that there is a light, and nothing before makes sure; a file whose lights are all
incomplete, or that has none, is warned of as one in which nothing will be seen,
and then the program aborts. `union_stale`: the comment says that a union counts
with the farthest of its members from the point that is asked for. The union's
number is in range of the buffer here; since `init_scene` sets the entries once
and the kernel only raises them, the second point of a ray gets the distance of
the first. Both are listed under `findings`.

With a number out of range it is worse, though no run is kept for it: the buffer
has one entry per distinct number, but is indexed by the number. For the number 1
of `scenes/union.json` it has one entry, number 0, that no figure belongs to and
that stays at `{0, null}`, so that `scene_dsf` returns at most 0 at the very first
point - `DistanceIsMin` fails there in `union_stale`, too, if its union is numbered
1 - and every ray ends at the camera, on no object. What does hold of unions is in
`union_race`.

The bounds are chosen so that each hazard occurs: the vertical axis has three
keys because `keyrelease_hook` has three labels for it; two figures of different
types tell the refill of one type from another; two view angles tell an image
from the camera's old pose. `UpdateBound` caps the counter. In `keyboard` it is
above the number of keys and never reached. In `session` lost releases and P
strokes would let the counter grow without end: the bound stops the growth in
both directions, and none of the properties checked there mention it.

In `rays` the queue has 6 elements instead of 16: two generations of children
are traced and a third only flagged, so the overrun occurs. The array behind the
flags is `prod`, of which six elements more reach the first three; of an array of
vectors they reach element 0 only, which is no ray's, so other layouts would add
nothing at this depth (the theorems have all of them). The lines have every kind
of root the selections tell apart - ahead, behind, none, a root that is zero, two
that coincide - but not every triple of distances; the theorems have those. Two
builds have `RTX_DIRECT`: in the one with `RTX_TRANSPARENCY` each of the five rays
may be blinded by the point light or not, and be aimed at it or not, in any
combination; the glass ball reflects and refracts, so both children of a ray are
blinded and weigh less than it does. There is no direct light: its shadow ray differs
from a point light's only in where it ends, `INFINITY`, which a crossing is never
behind; `ShadowsAreCorrect` has lights of every type.

In `session` the handles' square is 5 pixels wide in a window of 6 rows, so it is
cut on each side and on both at once. `Bearings` takes the twelve angles with
sines that are fifths; the four right angles among them make the matrices with
zeros in which a swapped minor could hide, the others the ones in which it cannot.

Some properties are conditional, because the code does not keep them otherwise:
`HeldKeyMoves` and `IdleWhenReleased` of sessions without the right button
(`do_update = true` overwrites the count, lines 396 and 459), `NoDrift` of
sessions that keep the focus, `EditsAreShown` and `StaleIsPending` of sessions
without steering keys (a stroke takes back the update a selection asked for).
The hazards in `PROJECT.json` describe what happens outside the conditions.

**Fairness.** `EditsAreShown` assumes weak fairness of `framehook` alone:
`mlx_loop` calls the loop hook every time it has drained the pending events. No
user action is fair. `HooksReturn` assumes weak fairness of the host thread and
of the GPU: each goes on when it has something to do. `MarchEnds` assumes weak
fairness of every work-item: a GPU executes the work-items it has started, in
any interleaving. Deadlock is checked except where the system may stop: the user
ends the program, the last frame of `Marcher` is done, or the file is parsed.

Each property has a mutant, an operator next to the definition it replaces, that
a plausible slip would turn the code into; TLC finds the property violated by it.

## 4. What TLAPS proves

For every scene, key set, button set and bound (`EventHooks_proofs`), from the
assumptions `ObjectsAssumption` and
`SessionAssumption` alone:

* `TypeCorrect`, `DeviceAlwaysMirrorsHost`;
* `SelectionCorrect`: `DragIsSafe` and `NoRunawayDrag` are inductive together -
  a drag needs the right button down, a selection can only change on the release
  of the right button, and only when no drag is on;
* `DragEnds_WithButton`, an action property from the same invariant;
* `HandlesAreShown` (`HandlesOnScreen`), and `DragsAreSafe`, the first half of
  `SelectionCorrect`. The handles are claimed against the figures *of the picture*,
  since a drag moves the figure under them until the next frame. Nothing is claimed
  of presses before the first frame of a selection, which are tested against
  handles the picture need not show;
* `Implementation`: initial states map to initial states of `Viewer`, every
  action to `Edit`, `Refresh`, `Exit` or a stutter. The frame needs
  `DeviceMirrorsHost`: what is rendered is the device's copy, what `Viewer`
  shows is the scene;
* `NeverDrifts`, `IdlesWhenReleased`, `HeldKeysMove`: `do_update` is the number
  of steering keys down, an invariant of its own about cardinalities, that the
  three properties follow from;
* `StaleAlwaysPending`.

For every number and size of figures (`FigureLayout_proofs`), from
`LayoutAssumption`: `LayoutTypes`, `KernelAlwaysReadsHost`, `RefillsAlwaysFit`.
The inductive invariant says that the regions placed so far are chained one
behind the other (`Chained`), hence ordered and apart (`Apart`), that each holds
its host vector (`Filled`), and that the kernel's shift is where the next one
starts (`InKernel`). `Apart` is what a refill needs not to touch its neighbours;
`Chained` is what the kernel's shift needs.

For every set of pixels, figures and poses (`ComputeQueue_proofs`), from
`PictureAssumption`: `QueueTypes`, `GpuIdleBetweenHooks`, `PicturesAreWhole`,
`NothingChangesUnderCommand`, and `FrameImplementsViewer`. The inductive
invariant `QueueInv` has a clause for each place of the host thread that lists
the queues it can have there, with what the commands already executed left
behind; `UnderWay` says of a kernel in progress that every pixel it has done
shows the present camera and figures.

For every scene without unions, any number of work-items and any bound on the
iterations (`Marcher_proofs`), from `MarcherAssumption`: `SceneDsfIsMinimum` and
`RaysEndOnObjects`. The inductive invariant `MarchInv` says of each work-item
that the distance is that of the object, of the type recorded with it
(`Nearest`); that no figure its loops have passed is nearer as long as nothing
is hit (`Least`), which is where the early breaks come in; and that a result has
what `HitIsReal` claims (`Real`). With unions the first statement is false, as
the run above shows. What holds with any unions, however the work-items race, is
`RacesKeepPointers` (`PointersAreSet`), by an invariant of its own (`RaceInv`): a
work-item stays at its figure between reading an entry and writing it, and a
distance is never kept without an object but in the one step before the pointer
is read from an entry that exists. It needs that the buffer's size is a number,
hence that the scene's figures are finite (`BufferIsFinite`).

For every set of files (`SceneParser_proofs`), from `FilesAssumption` - sections
are not repeated, the configuration is one item, only colours and light types can
be of an unknown name: `SceneAlwaysIsFile`, `SettingsAlwaysFromFile`,
`FlagsAlwaysTell`, `UnionsAlwaysCounted`. The inductive invariant `Parsing` says
of the item in progress what its members and its flags are after the fields read
so far (`InItem`), of each section that it has kept the complete ones of the
items ended so far (`KeptSoFar`), and that the settings are untouched before
their section and final behind it (`SettingsSoFar`). At the end every section is
behind the parser, and the invariant is the property.

For every scene, set of options, layout of the stack and even `RECURSION_DEPTH`
(`RayTracer_proofs`), from `RayTracerAssumption` and `NumbersAssumption`:
`TypeCorrect`, `QueueIsSound` (`RaysHaveData`), `SearchIsCorrect`,
`NormalIsOfThisRay`, `ShadowsAreCorrect`, `StrayRaysAreHarmless` and
`LightIsAccountedFor`. The first six rest on
`FirstCrossing` - each `intersect_*` returns the first crossing ahead, or a number
that no search takes - and, for the torus, on `CubicKeepsLargest`, that
`cubic_complex_solve` keeps the largest of the three real roots. The invariant of
the queue says of every ray that is flagged and not yet traced that its parent
has given it position, direction and weight, and that the flags set behind the end
reach only elements of rays that are over; this is where the depth has to be even.

What a pixel holds and still has to trace (`LightIsAccountedFor`, for
`LightIsAccounted`) is a sum over the rays, a recursive function whose induction the
library cannot give here, since its theorem takes an operator. It does say that
`<` is well-founded on the naturals, so that a set of numbers has a least one
(`LeastNumber`); a set with 0 and all successors is then all of them
(`Induction`), and the lemmas about sums follow: monotone, and changed in few
places changed by as much (`TotalMonotone`, `TotalUpdate`). The
invariant `Conserved` gives each ray a worth, the colour it has kept and the
weight of what is due to it, adds up the worths and bounds the sum by the first
ray's. It is stronger than `LightIsAccounted`, which looks at colours alone: a
child's weight is counted from the moment it is enqueued. A step only moves worth
from a ray to its children, and what is rounded away is lost (`SharesConserve`,
`BouncesConserve`). `Unit > 2` is assumed: `ONE` is
`1 - EPS` (`kernel_common.h:11`), `EPS` one part of `Unit`, and less than a half.
This is not a bound on the light of a pixel: with `RTX_DIRECT` every ray traced
adds the glare of a point light whole, whatever the ray weighs, and a pixel can
show more than its first ray would. For the glare there is a bound of its own in
the same theorem, by `GlareOK`: each light is added at most once by each ray that
was enqueued, or by each bounce, and by none in a build without it.

For every scene and both builds (`Startup_proofs`), from `StartupAssumption`:
`TypeCorrect`, `NothingReleasedTwice` (`OneOwner`), `KernelGetsItsArguments`,
`ExitFrees` and `HandlesAreLive` (`NothingDeadIsUsed`). The inductive invariant
says that a wrapper only ever holds its own object (`Home`), that the references
are those of the wrappers (`Counted`), which objects exist at each place of
`init_gpu` and `init_scene` (`InitGpuOK`, `InitSceneOK`), and of the destructors
that what they have passed is gone (`Destroying`, by its `Rank`). A step
needs `Live` of what it hands to OpenCL, and the invariant of its place has it.

For every window of at least three by three pixels, every place of a handle and
every angle (`Session_proofs`), from `OverlayAssumption` and
`ProjectionAssumption`: `SpecOverlayIsSound` (`OverlayIsSound`) and
`SpecHandlesFollowView` (`HandlesFollowView`). Behind the first are
`RoundStaysOnTrack`, that one round of a line's loop keeps its error within bounds
and the line within half a pixel, `TrackArrives`, that a line in these bounds is at
its end in the last round, and an induction over the rounds that joins them to
`LinesAreSound`, in all eight directions; then `BrushInImage`, `SquaresInImage` and
`SquaresCanBeGrabbed`. Behind the second are `ViewsRotate` and `ReverseUndoes`, that
`inv` of a rotation is its inverse, and with them `CamerasLookWhereTold`,
`HandlesAreOnObjects` and `ClicksPickNearby`, which follow a rounded division
through the projection. `Directions` are those whose length and angles are exact
in the model's numbers (`Exact`): what rounding of floats adds is not modelled.

Liveness under fairness (`EditsAreShown`, `HooksReturn`, `MarchEnds`) is out of the
prover's reach and stays with the runs. What is proved is all of it but the
fairness:

* `EveryRayEnds`: `Left` counts what a work-item still has to do - iterations,
  probes, lists, figures, accesses to the buffer - and every one of its steps
  lowers that in lexicographic order, which is well-founded, whatever the other
  work-items do to the buffer meanwhile, and they leave `Left` alone; until it is
  done, the guard of one of its steps holds (`Able`). It holds with unions, too.
* `EveryHookReturns`: the same of calls, commands and pixels while a hook is under
  way. Whenever the host waits the GPU has something to do (`HostAble`,
  `GpuAble`), so no wait is for ever. Pixels are finite (`PictureAssumption`).
* `NextFrameShowsEdits`: the guard of `framehook` holds as long as something is
  not on the screen, and the next frame shows all of it.

Only model-checked: these three properties as temporal formulas, and the two runs
that show the code at odds with a comment. The type invariants of `RayTracer`,
`FigureLayout` and the others without a run are proved.

## 5. Not modelled, and what is left

What the checks leave open about modelled code, observed on the way:

* The flags behind `ray_enqueued` only reach data nothing reads any more, but for
  the colours of the first rays if `ray_queue_col` is what lies there.
* The normal of a cone that is hit can be that of a cone tested later and met
  farther away (`tracer.cl:301`): `NormalOfHit` claims no more than holds.
* With `RTX_DIRECT` the glare of a point light is added unweighted by reflected and
  refracted rays too, so a pixel can be brighter than what its first ray meets. A
  ray aimed exactly at the light, and a refracted ray without a direction if there
  is a point light at all, make the pixel white. An odd specular exponent makes a negative highlight
  (`tracer.cl:471`), which is not modelled.
* The handles are pulled towards the middle of the image, as `pixpos_from_vec3`
  does not divide by the depth, and are one row below the kernel's pixel; a
  click, too, follows the ray one row above, for the first row one outside the
  image. `HandlesFollowView` allows for that one row and no more.
* Between a selection and its first frame a press can grab a handle of the object
  selected before, after a deselection one that is not in the picture, and the drag
  moves the new object.
* ESC leaves the window, the context and the kernel to the system; an array whose
  filling fails in its constructor leaks its buffer; a device that cannot be
  released ends the process from a destructor; the address of an image's pixels
  is asked for before it is known to exist.
* In windows narrower than three pixels a line is drawn outside the image:
  `OverlayAssumption` excludes them.

Out of reach or without state: the coefficients of the equations and the complex
roots (`algo.h`), the distance functions, colours and emission, the rounding of
floats, printing of objects, getters over the OpenCL API, the bytes of a
screenshot, the fps text. The library under `mlxlib` is a binary archive. Dead:
`reload_scene`, the blur kernel, `ferrari`, `cardano`, `refract_ray_2`, the gamma
matrices, `set_rotation_matrix`. Not built: `src/old`, `test.cpp`, the libraries'
demonstrations.

Left to do, in this order:

1. The colours of a pixel: the weights are in `RayTracer`, the highlights and the
   emission are not.
2. `CLarray` and `CLkernel` on their own: offsets of pointer fills, work sizes of
   other dimensions, which this program does not use.
3. That every pixel of `RayTracer` is finished, as `EveryRayEnds` has it for the
   marcher.
