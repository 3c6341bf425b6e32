------------------------------- MODULE MCConfig -------------------------------
(* A listener, one limit, the delay and one material; a source sets one key. *)
EXTENDS Config

MCTexts == [k \in {"sink.addr", "cert_cache_size", "shutdown_delay", "root_cert",
                   "root_cert_file"} |->
    CASE k = "sink.addr" -> {"127.0.0.1:9443", "nowhere"}
      [] k = "cert_cache_size" -> {"1", "0", "many", ""}
      [] k = "shutdown_delay" -> {"0", "-1", "five"}
      [] k = "root_cert" -> {"pem", ""}
      [] k = "root_cert_file" -> {"root.crt", "gone.crt", ""}]

MCDefault == [k \in {"sink.addr", "cert_cache_size", "shutdown_delay", "root_cert",
                     "root_cert_file"} |->
    CASE k = "sink.addr" -> ":443"
      [] k = "cert_cache_size" -> "256"
      [] k = "shutdown_delay" -> "5"
      [] OTHER -> ""]

MCMaterial == [k \in {"root_cert"} |-> "root_cert_file"]

MCNumber == [t \in {"-1", "0", "1", "5", "256"} |->
    CASE t = "-1" -> 0 - 1 [] t = "0" -> 0 [] t = "1" -> 1 [] t = "5" -> 5 [] t = "256" -> 256]

===============================================================================
