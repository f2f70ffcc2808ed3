------------------------------- MODULE MCApi --------------------------------
(* Instances of Api for TLC. *)
EXTENDS Api, Resize

(* The calculations on image sizes, over small sizes. *)
Sizes == 1 .. 9
ASSUME BoundedSizes ==
  \A width, height \in Sizes :
     /\ \A maxPixels \in 1 .. 20 : PixelLimit(width, height, maxPixels)
     /\ \A maxWidth, maxHeight \in Sizes :
          /\ TooNarrowExactly(width, height, maxWidth, maxHeight)
          /\ NeedsResize(width, height, maxWidth, maxHeight) =>
               FitsTarget(width, height, maxWidth, maxHeight)

Anyone == Credentials
Operator == {[key |-> k, host |-> h] : k \in Keys, h \in Hosts}

(* A burst against the limiter; the handlers behind it; probes of both      *)
(* health endpoints while the database fails or the file monitor publishes  *)
(* and the expiry ages; image endpoints used by two clients at once.        *)
Burst == [kinds |-> {"unknown"}, credentials |-> Anyone, requests |-> 4, ticks |-> MaxTime,
          limited |-> TRUE, auth |-> TRUE, env |-> {}]
Queue == [kinds |-> {"stats", "image"}, credentials |-> Anyone, requests |-> 2, ticks |-> 2,
          limited |-> TRUE, auth |-> TRUE, env |-> {}]
Probes == [kinds |-> {"health", "public health"}, credentials |-> Operator, requests |-> 2,
           ticks |-> 0, limited |-> FALSE, auth |-> FALSE, env |-> {"database", "clients"}]
Details == [kinds |-> {"health"}, credentials |-> Operator, requests |-> 1,
            ticks |-> 0, limited |-> FALSE, auth |-> TRUE, env |-> {"results"}]
Expiry == [kinds |-> {"health"}, credentials |-> Operator, requests |-> 3,
           ticks |-> 0, limited |-> FALSE, auth |-> FALSE, env |-> {"clock"}]
Editing == [kinds |-> {"upload", "delete", "bulk", "image"}, credentials |-> Anyone,
            requests |-> 2, ticks |-> 0, limited |-> FALSE, auth |-> TRUE, env |-> {}]
OnlyEditing == {Editing}
AllWorkloads == {Burst, Queue, Probes, Details, Expiry, Editing}
=============================================================================
