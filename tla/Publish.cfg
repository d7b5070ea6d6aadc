SPECIFICATION PublishSpec
CONSTANTS
  Platform = {"xiaohongshu", "wechat", "zhihu", "medium", "wordpress", "webhook"}
  Flow = {f1, f2}
  Log = {l1}
  Queue = {TRUE, FALSE}
  NoRow = NoRow
INVARIANTS DisconnectedStays PostsExplained 
CHECK_DEADLOCK FALSE
