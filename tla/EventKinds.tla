----------------------------- MODULE EventKinds -----------------------------
(***************************************************************************)
(* The Event classes of compysition.event as operators on event records.   *)
(*                                                                         *)
(* A class is a format and whether it is an HTTP class: Event, XMLEvent,   *)
(* JSONEvent, HttpEvent, XMLHttpEvent and JSONHttpEvent are the six        *)
(* combinations.  The data of an event is one of Forms, which is what the  *)
(* conversions tell apart:                                                 *)
(*   none, text, xmltext, jsontext, scalartext, bracetext   as received;   *)
(*   tree                          an etree element;                       *)
(*   json, emptyjson, scalar       a filled dict or list, {}, a number.    *)
(***************************************************************************)
EXTENDS Naturals

Class == [format : {"any", "xml", "json"}, http : BOOLEAN]

Texts == {"text", "xmltext", "jsontext", "scalartext", "bracetext"}
Forms == Texts \cup {"none", "tree", "json", "emptyjson", "scalar"}

(* What an event carries as its error: nothing, one of the exceptions of   *)
(* compysition.errors that have a status, another one of them (of which    *)
(* EventAttributeError stands for all), or any other exception.            *)
Errors ==
  {"none", "ResourceNotModified", "MalformedEventData", "InvalidEventDataModification",
   "UnauthorizedEvent", "ForbiddenEvent", "ResourceNotFound", "EventCommandNotAllowed",
   "ActorTimeout", "ResourceConflict", "ResourceGone", "UnprocessableEventData",
   "EventRateExceeded", "ServiceUnavailable", "EventAttributeError", "other"}

HttpCode ==
  [x \in Errors |->
     CASE x = "none" -> 200
       [] x = "ResourceNotModified" -> 304
       [] x \in {"MalformedEventData", "InvalidEventDataModification"} -> 400
       [] x = "UnauthorizedEvent" -> 401
       [] x = "ForbiddenEvent" -> 403
       [] x = "ResourceNotFound" -> 404
       [] x = "EventCommandNotAllowed" -> 405
       [] x = "ActorTimeout" -> 408
       [] x = "ResourceConflict" -> 409
       [] x = "ResourceGone" -> 410
       [] x = "UnprocessableEventData" -> 422
       [] x = "EventRateExceeded" -> 429
       [] x = "ServiceUnavailable" -> 503
       [] OTHER -> 500]

(* What a conversion that fails raises.                                    *)
Invalid == "InvalidEventDataModification"

-----------------------------------------------------------------------------
(* issubclass(c, d)                                                        *)
Sub(c, d) == /\ d.format \in {"any", c.format}
             /\ d.http => c.http

(* The conversion methods of the three data formats.  The XML format turns *)
(* a dict into an element by its first key, which an empty dict lacks; the *)
(* JSON format makes {} of no data at all.                                 *)
Stored(format, form) ==
  CASE format = "any" -> form
    [] format = "xml"  /\ form \in {"none", "xmltext", "tree", "json"} -> "tree"
    [] format = "json" /\ form \in {"none", "bracetext", "emptyjson"}  -> "emptyjson"
    [] format = "json" /\ form \in {"jsontext", "json", "tree"}        -> "json"
    [] format = "json" /\ form = "scalartext"                          -> "scalar"
    [] OTHER -> Invalid

(* (A faulty form, against which the runs are tried: the class asked for,  *)
(* whatever the event was.)                                                *)
ConvertedAsAsked(c, to) == to

(* Event.convert refuses a superclass; a subclass is taken as it is, and   *)
(* otherwise the bases that hold no data are kept, so that an HTTP event   *)
(* stays one.                                                              *)
Narrows(c, to) == Sub(c, to) /\ ~Sub(to, c)

Converted(c, to) == IF Sub(to, c) THEN to ELSE [to EXCEPT !.http = @ \/ c.http]

(* The new class reads the data of the old one.                            *)
ConvertedData(e, to) == Stored(Converted(e.class, to).format, e.data)

Converts(e, to) == ~Narrows(e.class, to) /\ ConvertedData(e, to) \in Forms

Convert(e, to) == [e EXCEPT !.class = Converted(e.class, to), !.data = ConvertedData(e, to)]

(* Event.__init__ and HttpEvent.__init__, with data that can be stored.    *)
NewEvent(class, form) ==
  [class |-> class, data |-> Stored(class.format, form), error |-> "none", status |-> 200]

(* The error property: an HTTP event takes the status of its error.        *)
WithError(e, error) ==
  [e EXCEPT !.error = error,
            !.status = IF e.class.http /\ error # "none" THEN HttpCode[error] ELSE @]

(* __getstate__ writes XML and JSON data out as text ...                   *)
Written(e) ==
  CASE e.data = "tree"      /\ e.class.format = "xml"  -> "xmltext"
    [] e.data = "json"      /\ e.class.format = "json" -> "jsontext"
    [] e.data = "scalar"    /\ e.class.format = "json" -> "scalartext"
    [] e.data = "emptyjson" /\ e.class.format = "json" -> "bracetext"
    [] OTHER -> e.data

(* ... and __setstate__ reads it and sets the error once more.  A deepcopy *)
(* does both, and so does every send of an event, by queue or pickled.     *)
Copy(e) ==
  WithError([e EXCEPT !.data = Stored(e.class.format, Written(e))], e.error)

(* format_error takes the fields of the exception for those of the report; *)
(* the XML report needs a code, which only the package's own errors have.  *)
CanReport(e) == ~(e.class.format = "xml" /\ e.error = "other")

-----------------------------------------------------------------------------
Event == [class : Class, data : Forms, error : Errors, status : Nat]

(* What the data of a class can be once it has been stored.                *)
Sound(e) ==
  /\ e.class.format = "xml" => e.data = "tree"
  /\ e.class.format = "json" => e.data \in {"json", "emptyjson", "scalar"}
=============================================================================
