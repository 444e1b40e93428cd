-------------------------------- MODULE Frame --------------------------------
(***************************************************************************)
(* Frame of ssdaq/data/_dataimpl/frame.py: a dictionary of objects that is *)
(* serialized as a whole and deserialized object by object, when they are  *)
(* asked for.                                                              *)
(*                                                                         *)
(* A frame has two dictionaries, of the objects and of what is still       *)
(* serialized; a key may be in both, then the object counts.  An object is *)
(* [cls, val]; its bytes are in the stream with the name of its class.     *)
(* What deserialization does depends on the class alone.  Classes have     *)
(* names of their own: the cache of imported classes, by name, then adds   *)
(* nothing to what an import finds.                                        *)
(***************************************************************************)
EXTENDS Integers, Sequences, SequencesExt

CONSTANTS
  Keys,        \* the keys
  CommaKeys,   \* those with a comma or a newline in them
  Restorable,  \* classes whose deserialize(data) gives the object: trigger packets,
               \* SSReadout, the protocol buffers, arrays and tuples by PyArrowSerializer
  Instances,   \* classes with deserialize as a method of the instance: FrameObject's
  Foreign,     \* classes that the reader does not find in their module
  Uninstalled, \* classes whose module the reader does not find
  Plain        \* classes without serialize, bytes among them

ASSUME FrameAssumption ==
  /\ CommaKeys \subseteq Keys
  /\ "bytes" \in Plain
  /\ Restorable \intersect (Instances \union Foreign \union Uninstalled \union Plain) = {}

Classes == Restorable \union Instances \union Foreign \union Uninstalled \union Plain

EmptyDict == [k \in {} |-> 0]
EmptyFrame == [objects |-> EmptyDict, serialized |-> EmptyDict]

Add(f, k, o) ==
  [f EXCEPT !.objects = [j \in DOMAIN f.objects \union {k} |-> IF j = k THEN o ELSE f.objects[j]]]

\* The keys that are serialized only
Untouched(f) == DOMAIN f.serialized \ DOMAIN f.objects

\* The keys whose object deserialize gives, or whose bytes stand for it
Deserializable(f) == {k \in Untouched(f) : f.serialized[k].cls \notin Instances}

Deserialized(o) == IF o.cls \in Foreign THEN [cls |-> "bytes", val |-> o] ELSE o

\* _deserialized_obj at some keys; where it fails it leaves no object.
DeserializeAt(f, ks) ==
  [f EXCEPT !.objects = [j \in DOMAIN @ \union (ks \intersect Deserializable(f)) |->
     IF j \in DOMAIN @ THEN @[j] ELSE Deserialized(f.serialized[j])]]

\* get gives None, here <<>>, if there is no object; [] raises KeyError in its place.
GetFrom(f, k) ==
  LET g == DeserializeAt(f, {k}) IN IF k \in DOMAIN g.objects THEN <<g.objects[k]>> ELSE <<>>

FrameKeys(f) == DOMAIN f.objects \union DOMAIN f.serialized

-----------------------------------------------------------------------------
(* items, serialize and deserialize *)

\* Mutant: what is serialized replaces the objects added since.
ItemsAgain(f) ==
  [f EXCEPT !.objects = DeserializeAt([f EXCEPT !.objects = EmptyDict], FrameKeys(f)).objects @@ @]

\* The frame after all of items: every object that can be, deserialized
Items(f) == DeserializeAt(f, Untouched(f))

\* items raises KeyError at an object that cannot be deserialized, and serialize at one
\* without serialize, as are the bytes of an object of a class not found.
Serializable(f) ==
  /\ DOMAIN Items(f).objects = FrameKeys(f)
  /\ \A k \in FrameKeys(f) : Items(f).objects[k].cls \notin Plain

Serialize(f) == Items(f).objects

\* A comma in a key breaks the list of classes, a module not found raises ImportError.
CanDeserialize(stream) ==
  \A k \in DOMAIN stream : k \notin CommaKeys /\ stream[k].cls \notin Uninstalled

Deserialize(stream) == [objects |-> EmptyDict, serialized |-> stream]
=============================================================================
