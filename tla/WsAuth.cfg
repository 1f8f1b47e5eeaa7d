CONSTANT Sockets = {s1, s2}
SPECIFICATION FairSpec
PROPERTIES LostClientsAreForgotten MessagesGetAVerdict
