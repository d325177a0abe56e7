------------------------------ MODULE Session ------------------------------
(***************************************************************************)
(* The hooks with what they draw: where the handles of a selected object   *)
(* are is a free choice in EventHooks, any place in Overlay, and computed  *)
(* from the camera in Projection.                                          *)
(***************************************************************************)
EXTENDS EventHooks, Projection

(* Whenever handles are on the screen, wherever they are, also behind the   *)
(* edges of the window: what is drawn stays in the image; a line joins its  *)
(* ends, limited to the window, and is never more than half a pixel off;    *)
(* and a press on a pixel of a handle's square is near enough to grab a     *)
(* handle (_draw_line_low, _draw_line_high, draw_line, draw_rect against    *)
(* mousepress_hook).                                                        *)
OverlayIsSound == shown.overlay # Nothing => DrawingIsSound

(* Whenever handles are on the screen, in every view: the camera looks the  *)
(* way the scene file says, its matrix is a rotation, the handle of an      *)
(* object lies between the middle of the image and the pixel whose ray      *)
(* meets the object, and a click follows the ray of a pixel at most one row *)
(* from the one it hits (camera_s, compute_matrix and inv against           *)
(* vec3_from_pixpos and pixpos_from_vec3, object_at_pos against the kernel).*)
HandlesFollowView == shown.overlay # Nothing => ViewIsSound
=============================================================================
